---- MODULE Spec2Model ----
(***************************************************************************)
(* Container lifecycle and status reconciliation of the MCP server         *)
(* manager: ContainerManager (core/container_manager.py), StatusMonitor    *)
(* (core/status_monitor.py), MCPServerManager (core/mcp_manager.py) and    *)
(* the data models they use (data/models.py), against a model of the       *)
(* container daemon.                                                       *)
(***************************************************************************)
EXTENDS Integers, Sequences, FiniteSets, TLC

\* ------------------------------------------------------------------------
\* Bounds
\* ------------------------------------------------------------------------
\* number of containers the daemon creates in one behaviour
MaxIds == 2
\* largest value of a raw stats counter
MaxCounter == 2
\* largest number of per-core entries of a stats payload
MaxCores == 2

\* server names, which are also the container names (config.name)
Names == {"a", "b"}
\* the ids the daemon hands out, in order
IdPool == <<"c1", "c2", "c3", "c4">>
Ids == {IdPool[i] : i \in 1..MaxIds}
\* what a caller can pass as "container ID or name"
Refs == Names \cup Ids \cup {"zz"}

\* daemon status strings ("removing" stands for every string outside the table)
DockerStatuses ==
  {"running", "exited", "dead", "created", "restarting", "paused", "removing"}
\* State.Health.Status of a container; "" is a container without a health check
HealthValues == {"", "healthy", "unhealthy"}

\* ------------------------------------------------------------------------
\* Values
\* ------------------------------------------------------------------------
\* Python's None / True / False / str as return values of an operation
RNone == [t |-> "none"]
RBool(b) == [t |-> "bool", b |-> b]
RStr(s) == [t |-> "str", s |-> s]
RObj(o) == [t |-> "obj", o |-> o]

\* a container of the daemon, keyed by its name
NoContainer == [exists |-> FALSE, id |-> "", status |-> "", health |-> ""]
Container(id, status, health) ==
  [exists |-> TRUE, id |-> id, status |-> status, health |-> health]

\* one call of a daemon primitive
Call(prim, target) == <<prim, target>>

\* what an operation hands back: the daemon after it, the value returned, the
\* exception that escaped ("none" when it returned) and the primitives called
Outcome(cs, nid, ret, exc, calls) ==
  [cs |-> cs, nid |-> nid, ret |-> ret, exc |-> exc, calls |-> calls]

\* ------------------------------------------------------------------------
\* The daemon (docker SDK as the code uses it)
\* ------------------------------------------------------------------------
\* client.containers.get(idOrName): the name of the container, "" for NotFound
Resolve(cs, ref) ==
  IF \E n \in Names : cs[n].exists /\ (n = ref \/ cs[n].id = ref)
  THEN CHOOSE n \in Names : cs[n].exists /\ (n = ref \/ cs[n].id = ref)
  ELSE ""

SetStatus(cs, n, status) == [cs EXCEPT ![n].status = status]

\* ------------------------------------------------------------------------
\* MCPServerConfig and the run-spec translator
\* ------------------------------------------------------------------------
\* docker_command after shlex.split
Commands ==
  { <<"docker", "run", "-p", "8080:80", "nginx">>,
    <<"docker", "run", "-p", "8080", "nginx">>,
    <<"docker", "ps">>,
    <<"docker">> }

Config(name, cmd) == [name |-> name, docker_command |-> cmd]
Configs == {Config(n, c) : n \in Names, c \in Commands}

\* str.split(":") of the tokens that follow a publish flag
SplitColon(tok) ==
  CASE tok = "8080:80" -> <<"8080", "80">>
    [] OTHER -> <<tok>>

\* int(host_port)
IntOf(s) ==
  CASE s = "8080" -> 8080
    [] s = "80" -> 80
    [] OTHER -> -1
IsIntLiteral(s) == s \in {"8080", "80"}

RECURSIVE ParsePorts(_, _, _)
\* the loop over enumerate(parts): the ports found from index i on, or the
\* exception of the first malformed pair
ParsePorts(parts, i, acc) ==
  IF i > Len(parts) THEN [exc |-> "none", ports |-> acc]
  ELSE IF parts[i] \in {"-p", "--publish"} /\ i + 1 <= Len(parts)
  THEN LET f == SplitColon(parts[i + 1]) IN
       IF Len(f) # 2 THEN [exc |-> "ValueError", ports |-> acc]
       ELSE IF ~IsIntLiteral(f[1]) THEN [exc |-> "ValueError", ports |-> acc]
       ELSE ParsePorts(parts, i + 1, acc \cup {<<f[2], IntOf(f[1])>>})
  ELSE ParsePorts(parts, i + 1, acc)

NoParams == [image |-> "", name |-> "", detach |-> TRUE, ports |-> {}]

_parse_docker_command(config) ==
  LET parts == config.docker_command IN
  IF Len(parts) = 0 THEN [exc |-> "ValueError", params |-> NoParams]
  ELSE IF parts[1] # "docker" THEN [exc |-> "ValueError", params |-> NoParams]
  ELSE IF Len(parts) < 2 THEN [exc |-> "IndexError", params |-> NoParams]
  ELSE IF parts[2] # "run" THEN [exc |-> "ValueError", params |-> NoParams]
  ELSE LET p == ParsePorts(parts, 1, {}) IN
       IF p.exc # "none" THEN [exc |-> p.exc, params |-> NoParams]
       ELSE [exc |-> "none",
             params |-> [image |-> parts[Len(parts)], name |-> config.name,
                         detach |-> TRUE, ports |-> p.ports]]

\* ------------------------------------------------------------------------
\* ContainerManager
\* ------------------------------------------------------------------------
\* the primitives a daemon failure (a DockerException other than NotFound)
\* can hit during one operation; "none" is a call without a failure
FailPoints ==
  {"none", "get", "start", "pull", "run", "stop", "restart", "remove", "reload"}

\* start_container with an existence probe that never finds the container
start_container_noprobe(cs, nid, config, fail) ==
  LET probe == <<Call("get", config.name)>>
      p == _parse_docker_command(config)
      id == IdPool[IF nid > Len(IdPool) THEN Len(IdPool) ELSE nid]
  IN
  IF fail = "get" THEN Outcome(cs, nid, RNone, "DockerException", probe)
  ELSE IF p.exc # "none" THEN Outcome(cs, nid, RNone, p.exc, probe)
  ELSE Outcome([cs EXCEPT ![p.params.name] = Container(id, "running", "")],
               nid + 1, RStr(id), "none",
               probe \o <<Call("pull", p.params.image),
                          Call("run", p.params.name)>>)

\* start_container running the new container without pulling its image
start_container_nopull(cs, nid, config, fail) ==
  LET n == Resolve(cs, config.name)
      probe == <<Call("get", config.name)>>
      p == _parse_docker_command(config)
      ran == Append(probe, Call("run", config.name))
  IN
  IF fail = "get" THEN Outcome(cs, nid, RNone, "DockerException", probe)
  ELSE IF n # "" THEN
    IF cs[n].status = "running"
    THEN Outcome(cs, nid, RStr(cs[n].id), "none", probe)
    ELSE IF fail = "start"
    THEN Outcome(cs, nid, RNone, "DockerException",
                 Append(probe, Call("start", n)))
    ELSE Outcome(SetStatus(cs, n, "running"), nid, RStr(cs[n].id), "none",
                 Append(probe, Call("start", n)))
  ELSE IF p.exc # "none" THEN Outcome(cs, nid, RNone, p.exc, probe)
  ELSE IF fail \in {"pull", "run"}
  THEN Outcome(cs, nid, RNone, "DockerException", ran)
  ELSE Outcome([cs EXCEPT ![config.name] = Container(IdPool[nid], "running", "")],
               nid + 1, RStr(IdPool[nid]), "none", ran)

\* start_container handing back the id of an existing container without
\* starting it
start_container_nostart(cs, nid, config, fail) ==
  LET n == Resolve(cs, config.name)
      probe == <<Call("get", config.name)>>
      p == _parse_docker_command(config)
      ran == probe \o <<Call("pull", p.params.image), Call("run", config.name)>>
  IN
  IF fail = "get" THEN Outcome(cs, nid, RNone, "DockerException", probe)
  ELSE IF n # "" THEN Outcome(cs, nid, RStr(cs[n].id), "none", probe)
  ELSE IF p.exc # "none" THEN Outcome(cs, nid, RNone, p.exc, probe)
  ELSE IF fail \in {"pull", "run"}
  THEN Outcome(cs, nid, RNone, "DockerException", ran)
  ELSE Outcome([cs EXCEPT ![config.name] = Container(IdPool[nid], "running", "")],
               nid + 1, RStr(IdPool[nid]), "none", ran)

\* start_container taking a failed probe for not-found and going on to create
\* the container
start_container_swallow(cs, nid, config, fail) ==
  LET n == Resolve(cs, config.name)
      probe == <<Call("get", config.name)>>
      p == _parse_docker_command(config)
      ran == probe \o <<Call("pull", p.params.image), Call("run", config.name)>>
  IN
  IF fail # "get" /\ n # "" THEN
    IF cs[n].status = "running"
    THEN Outcome(cs, nid, RStr(cs[n].id), "none", probe)
    ELSE Outcome(SetStatus(cs, n, "running"), nid, RStr(cs[n].id), "none",
                 Append(probe, Call("start", n)))
  ELSE IF p.exc # "none" THEN Outcome(cs, nid, RNone, p.exc, probe)
  ELSE IF fail \in {"pull", "run"} \/ n # ""
  THEN Outcome(cs, nid, RNone, "DockerException", ran)
  ELSE Outcome([cs EXCEPT ![config.name] = Container(IdPool[nid], "running", "")],
               nid + 1, RStr(IdPool[nid]), "none", ran)

\* the id a container reports; with the answer "noid" the daemon's record of
\* the container carries none ("" is None)
ReportedId(id, fail) == IF fail = "noid" THEN "" ELSE id

start_container(cs, nid, config, fail) ==
  LET n == Resolve(cs, config.name)
      probe == <<Call("get", config.name)>>
  IN
  IF fail = "get" THEN Outcome(cs, nid, RNone, "DockerException", probe)
  ELSE IF n # "" THEN
    LET id == ReportedId(cs[n].id, fail) IN
    IF cs[n].status = "running" THEN
      IF id = "" THEN Outcome(cs, nid, RNone, "DockerException", probe)
      ELSE Outcome(cs, nid, RStr(id), "none", probe)
    ELSE
      LET calls == Append(probe, Call("start", n)) IN
      IF fail = "start" THEN Outcome(cs, nid, RNone, "DockerException", calls)
      ELSE LET cs2 == SetStatus(cs, n, "running") IN
           IF id = "" THEN Outcome(cs2, nid, RNone, "DockerException", calls)
           ELSE Outcome(cs2, nid, RStr(id), "none", calls)
  ELSE
    LET p == _parse_docker_command(config) IN
    IF p.exc # "none" THEN Outcome(cs, nid, RNone, p.exc, probe)
    ELSE
      LET pulled == Append(probe, Call("pull", p.params.image)) IN
      IF fail = "pull" THEN Outcome(cs, nid, RNone, "DockerException", pulled)
      ELSE
        LET ran == Append(pulled, Call("run", p.params.name)) IN
        IF fail = "run" THEN Outcome(cs, nid, RNone, "DockerException", ran)
        ELSE
          LET id == ReportedId(IdPool[nid], fail)
              cs2 == [cs EXCEPT ![p.params.name] =
                        Container(IdPool[nid], "running", "")]
          IN IF id = ""
             THEN Outcome(cs2, nid + 1, RNone, "DockerException", ran)
             ELSE Outcome(cs2, nid + 1, RStr(id), "none", ran)

\* stop_container without the check of the status
stop_container_nocheck(cs, nid, container_id, fail) ==
  LET n == Resolve(cs, container_id)
      probe == <<Call("get", container_id)>>
  IN
  IF fail = "get" THEN Outcome(cs, nid, RNone, "DockerException", probe)
  ELSE IF n = "" THEN Outcome(cs, nid, RBool(FALSE), "none", probe)
  ELSE
    LET calls == Append(probe, Call("stop", n)) IN
    IF fail = "stop" THEN Outcome(cs, nid, RNone, "DockerException", calls)
    ELSE Outcome(SetStatus(cs, n, "exited"), nid, RBool(TRUE), "none", calls)

stop_container(cs, nid, container_id, fail) ==
  LET n == Resolve(cs, container_id)
      probe == <<Call("get", container_id)>>
  IN
  IF fail = "get" THEN Outcome(cs, nid, RNone, "DockerException", probe)
  ELSE IF n = "" THEN Outcome(cs, nid, RBool(FALSE), "none", probe)
  ELSE IF cs[n].status = "running" THEN
    LET calls == Append(probe, Call("stop", n)) IN
    IF fail = "stop" THEN Outcome(cs, nid, RNone, "DockerException", calls)
    ELSE Outcome(SetStatus(cs, n, "exited"), nid, RBool(TRUE), "none", calls)
  ELSE Outcome(cs, nid, RBool(TRUE), "none", probe)

\* restart_container that restarts a running container only
restart_container_ifrunning(cs, nid, container_id, fail) ==
  LET n == Resolve(cs, container_id)
      probe == <<Call("get", container_id)>>
  IN
  IF fail = "get" THEN Outcome(cs, nid, RNone, "DockerException", probe)
  ELSE IF n = "" THEN Outcome(cs, nid, RBool(FALSE), "none", probe)
  ELSE IF cs[n].status # "running"
  THEN Outcome(cs, nid, RBool(TRUE), "none", probe)
  ELSE IF fail = "restart"
  THEN Outcome(cs, nid, RNone, "DockerException",
               Append(probe, Call("restart", n)))
  ELSE Outcome(cs, nid, RBool(TRUE), "none", Append(probe, Call("restart", n)))

restart_container(cs, nid, container_id, fail) ==
  LET n == Resolve(cs, container_id)
      probe == <<Call("get", container_id)>>
  IN
  IF fail = "get" THEN Outcome(cs, nid, RNone, "DockerException", probe)
  ELSE IF n = "" THEN Outcome(cs, nid, RBool(FALSE), "none", probe)
  ELSE
    LET calls == Append(probe, Call("restart", n)) IN
    IF fail = "restart" THEN Outcome(cs, nid, RNone, "DockerException", calls)
    ELSE Outcome(SetStatus(cs, n, "running"), nid, RBool(TRUE), "none", calls)

\* remove_container without force: a running container is left in place
remove_container_noforce(cs, nid, container_id, fail) ==
  LET n == Resolve(cs, container_id)
      probe == <<Call("get", container_id)>>
  IN
  IF fail = "get" THEN Outcome(cs, nid, RNone, "DockerException", probe)
  ELSE IF n = "" THEN Outcome(cs, nid, RBool(TRUE), "none", probe)
  ELSE
    LET calls == Append(probe, Call("remove", n)) IN
    IF fail = "remove" THEN Outcome(cs, nid, RNone, "DockerException", calls)
    ELSE IF cs[n].status = "running"
    THEN Outcome(cs, nid, RBool(TRUE), "none", calls)
    ELSE Outcome([cs EXCEPT ![n] = NoContainer], nid, RBool(TRUE), "none", calls)

remove_container(cs, nid, container_id, fail) ==
  LET n == Resolve(cs, container_id)
      probe == <<Call("get", container_id)>>
  IN
  IF fail = "get" THEN Outcome(cs, nid, RNone, "DockerException", probe)
  ELSE IF n = "" THEN Outcome(cs, nid, RBool(TRUE), "none", probe)
  ELSE
    LET calls == Append(probe, Call("remove", n)) IN
    IF fail = "remove" THEN Outcome(cs, nid, RNone, "DockerException", calls)
    ELSE Outcome([cs EXCEPT ![n] = NoContainer], nid, RBool(TRUE), "none", calls)

\* ServerStatus (imported by the core as ContainerStatus)
ServerStatus ==
  {"RUNNING", "STOPPED", "ERROR", "UNKNOWN", "STARTING", "STOPPING"}

\* ContainerStatus.from_docker_status: the classification table
from_docker_status(docker_status) ==
  CASE docker_status = "running" -> "RUNNING"
    [] docker_status = "exited" -> "STOPPED"
    [] docker_status = "dead" -> "STOPPED"
    [] docker_status = "created" -> "STARTING"
    [] docker_status = "restarting" -> "STARTING"
    [] docker_status = "paused" -> "UNKNOWN"
    [] OTHER -> "UNKNOWN"

\* get_container_status that takes the daemon string for the enum value
get_container_status_byvalue(cs, nid, container_id, fail) ==
  LET n == Resolve(cs, container_id)
      probe == <<Call("get", container_id)>>
  IN
  IF fail = "get" THEN Outcome(cs, nid, RStr("ERROR"), "none", probe)
  ELSE IF n = "" THEN Outcome(cs, nid, RStr("UNKNOWN"), "none", probe)
  ELSE
    LET calls == Append(probe, Call("reload", n)) IN
    IF fail = "reload" THEN Outcome(cs, nid, RStr("ERROR"), "none", calls)
    ELSE IF cs[n].status = "running"
    THEN Outcome(cs, nid, RStr("RUNNING"), "none", calls)
    ELSE Outcome(cs, nid, RStr("ERROR"), "none", calls)

get_container_status(cs, nid, container_id, fail) ==
  LET n == Resolve(cs, container_id)
      probe == <<Call("get", container_id)>>
  IN
  IF fail = "get" THEN Outcome(cs, nid, RStr("ERROR"), "none", probe)
  ELSE IF n = "" THEN Outcome(cs, nid, RStr("UNKNOWN"), "none", probe)
  ELSE
    LET calls == Append(probe, Call("reload", n)) IN
    IF fail = "reload" THEN Outcome(cs, nid, RStr("ERROR"), "none", calls)
    ELSE Outcome(cs, nid, RStr(from_docker_status(cs[n].status)), "none", calls)

\* ------------------------------------------------------------------------
\* Numbers: Python floats as exact fractions
\* ------------------------------------------------------------------------
Abs(x) == IF x < 0 THEN -x ELSE x

RECURSIVE GCD(_, _)
GCD(x, y) == IF y = 0 THEN x ELSE GCD(y, x % y)

\* the fraction n/d (d # 0) in lowest terms with a positive denominator
Frac(n, d) ==
  LET g == GCD(Abs(n), Abs(d))
      s == IF d < 0 THEN -1 ELSE 1
  IN [num |-> (s * n) \div g, den |-> (s * d) \div g]

\* a / b of two ints (b # 0), and a float times an int
TrueDiv(a, b) == Frac(a, b)
MulInt(f, k) == Frac(f.num * k, f.den)
FracGe(f, k) == f.num >= k * f.den
FracLe(f, k) == f.num <= k * f.den

\* Optional[float] and Optional[int]
NoFloat == [some |-> FALSE, v |-> Frac(0, 1)]
SomeFloat(f) == [some |-> TRUE, v |-> f]
NoInt == [some |-> FALSE, v |-> 0]
SomeInt(i) == [some |-> TRUE, v |-> i]

\* ------------------------------------------------------------------------
\* ResourceUsage and MCPServerStatus (data/models.py)
\* ------------------------------------------------------------------------
\* Field(ge=0, le=100) of cpu_usage and Field(ge=0) of the integer fields
CpuFieldValid(c) == c.some => (FracGe(c.v, 0) /\ FracLe(c.v, 100))
IntFieldValid(i) == i.some => i.v >= 0

\* ResourceUsage without the le=100 of cpu_usage
ResourceUsage_nole(cpu, mem, rx, tx, br, bw, pids) ==
  IF /\ cpu.some => FracGe(cpu.v, 0)
     /\ IntFieldValid(mem)
     /\ IntFieldValid(rx)
     /\ IntFieldValid(tx)
     /\ IntFieldValid(br)
     /\ IntFieldValid(bw)
     /\ IntFieldValid(pids)
  THEN [exc |-> "none",
        value |-> [cpu_usage |-> cpu, memory_usage |-> mem, network_rx |-> rx,
                   network_tx |-> tx, block_read |-> br, block_write |-> bw,
                   pids |-> pids]]
  ELSE [exc |-> "ValidationError",
        value |-> [cpu_usage |-> NoFloat, memory_usage |-> NoInt,
                   network_rx |-> NoInt, network_tx |-> NoInt,
                   block_read |-> NoInt, block_write |-> NoInt, pids |-> NoInt]]

\* ResourceUsage(...): the validated value, or pydantic's ValidationError
ResourceUsage(cpu, mem, rx, tx, br, bw, pids) ==
  IF /\ CpuFieldValid(cpu)
     /\ IntFieldValid(mem)
     /\ IntFieldValid(rx)
     /\ IntFieldValid(tx)
     /\ IntFieldValid(br)
     /\ IntFieldValid(bw)
     /\ IntFieldValid(pids)
  THEN [exc |-> "none",
        value |-> [cpu_usage |-> cpu, memory_usage |-> mem, network_rx |-> rx,
                   network_tx |-> tx, block_read |-> br, block_write |-> bw,
                   pids |-> pids]]
  ELSE [exc |-> "ValidationError",
        value |-> [cpu_usage |-> NoFloat, memory_usage |-> NoInt,
                   network_rx |-> NoInt, network_tx |-> NoInt,
                   block_read |-> NoInt, block_write |-> NoInt, pids |-> NoInt]]

\* Optional[ResourceUsage]
NoUsage == [some |-> FALSE]
SomeUsage(u) == [some |-> TRUE, v |-> u]

\* MCPServerStatus; health_status "" is None
MCPServerStatus(status, resource_usage, health_status, last_check) ==
  [status |-> status, resource_usage |-> resource_usage,
   health_status |-> health_status, last_check |-> last_check]

\* ------------------------------------------------------------------------
\* The stats payload of container.stats(stream=False)
\* ------------------------------------------------------------------------
\* has_* are the sub-fields the daemon leaves out for some containers;
\* blkio is "absent", "null" or "list" (io_service_bytes_recursive)
Stats(total, pretotal, has_sys, sys, has_presys, presys, has_percpu, ncores, has_mem, mem, has_networks, networks, blkio, blkio_items, has_pids_stats, has_current, current) ==
  [total |-> total, pretotal |-> pretotal, has_sys |-> has_sys, sys |-> sys,
   has_presys |-> has_presys, presys |-> presys, has_percpu |-> has_percpu,
   ncores |-> ncores, has_mem |-> has_mem, mem |-> mem,
   has_networks |-> has_networks, networks |-> networks, blkio |-> blkio,
   blkio_items |-> blkio_items, has_pids_stats |-> has_pids_stats,
   has_current |-> has_current, current |-> current]

Iface(rx, tx) == [rx_bytes |-> rx, tx_bytes |-> tx]
BlkItem(op, value) == [op |-> op, value |-> value]

Counters == 0..MaxCounter

\* the payload of test_get_resource_usage_success
TestStats ==
  Stats(2000, 1000, TRUE, 10000, TRUE, 5000, TRUE, 2, TRUE, 1048576,
        TRUE, <<Iface(1000, 2000)>>, "list",
        <<BlkItem("Read", 512), BlkItem("Write", 1024)>>, TRUE, TRUE, 5)

\* payloads that vary the CPU counters, everything else present
CpuStats ==
  { Stats(t, pt, hs, s, TRUE, ps, hp, nc, TRUE, 1, TRUE, <<Iface(1, 2)>>,
          "list", <<BlkItem("Read", 1)>>, TRUE, TRUE, 1) :
      t \in Counters, pt \in Counters, hs \in BOOLEAN, s \in Counters,
      ps \in Counters, hp \in BOOLEAN, nc \in 1..MaxCores }

\* payloads that vary which sub-fields are present, with a steady CPU sample
ShapeStats ==
  { Stats(1, 0, TRUE, MaxCounter, hps, 0, TRUE, 1, hm, m, hn, nw, bk, items,
          hpid, hcur, 1) :
      hps \in BOOLEAN, hm \in BOOLEAN, m \in {0, MaxCounter}, hn \in BOOLEAN,
      nw \in {<<>>, <<Iface(1, 2), Iface(MaxCounter, 0)>>},
      bk \in {"absent", "null", "list"},
      items \in {<<>>, <<BlkItem("Read", 1), BlkItem("Write", 2),
                         BlkItem("Total", 3), BlkItem("Read", MaxCounter)>>},
      hpid \in BOOLEAN, hcur \in BOOLEAN }

StatsPayloads == CpuStats \cup ShapeStats \cup {TestStats}

\* three payloads: a container at a steady load, one that used every core for
\* longer than the system counter advanced, and one that is not running (no
\* system counter, no memory counter)
SteadyStats ==
  Stats(1, 0, TRUE, MaxCounter, TRUE, 0, TRUE, 1, TRUE, 1, TRUE, <<Iface(1, 2)>>, "list", <<BlkItem("Read", 1)>>, TRUE, TRUE, 1)
HotStats ==
  Stats(MaxCounter, 0, TRUE, 1, TRUE, 0, TRUE, MaxCores, TRUE, 1, TRUE, <<Iface(1, 2)>>, "list", <<BlkItem("Read", 1)>>, TRUE, TRUE, 1)
BareStats ==
  Stats(0, 0, FALSE, 0, FALSE, 0, FALSE, 0, FALSE, 0, FALSE, <<>>, "absent", <<>>, FALSE, FALSE, 0)
SampleStats == {SteadyStats, HotStats, BareStats}

\* ------------------------------------------------------------------------
\* StatusMonitor
\* ------------------------------------------------------------------------
RECURSIVE SumRx(_)
SumRx(networks) ==
  IF networks = <<>> THEN 0 ELSE Head(networks).rx_bytes + SumRx(Tail(networks))

RECURSIVE SumTx(_)
SumTx(networks) ==
  IF networks = <<>> THEN 0 ELSE Head(networks).tx_bytes + SumTx(Tail(networks))

RECURSIVE SumOp(_, _)
SumOp(items, op) ==
  IF items = <<>> THEN 0
  ELSE (IF Head(items).op = op THEN Head(items).value ELSE 0)
       + SumOp(Tail(items), op)

\* CpuUsage without the number of cores
CpuUsage_nocores(stats) ==
  IF ~stats.has_sys \/ ~stats.has_presys
  THEN [exc |-> "KeyError", v |-> Frac(0, 1)]
  ELSE LET cpu_delta == stats.total - stats.pretotal
           system_cpu_delta == stats.sys - stats.presys
       IN IF system_cpu_delta > 0
          THEN IF ~stats.has_percpu
               THEN [exc |-> "KeyError", v |-> Frac(0, 1)]
               ELSE [exc |-> "none",
                     v |-> MulInt(TrueDiv(cpu_delta, system_cpu_delta), 100)]
          ELSE [exc |-> "none", v |-> Frac(0, 1)]

\* lines 97-99: the value of the local cpu_usage, or the KeyError of the
\* first sub-field that is missing
CpuUsage(stats) ==
  IF ~stats.has_sys \/ ~stats.has_presys
  THEN [exc |-> "KeyError", v |-> Frac(0, 1)]
  ELSE LET cpu_delta == stats.total - stats.pretotal
           system_cpu_delta == stats.sys - stats.presys
       IN IF system_cpu_delta > 0
          THEN IF ~stats.has_percpu
               THEN [exc |-> "KeyError", v |-> Frac(0, 1)]
               ELSE [exc |-> "none",
                     v |-> MulInt(MulInt(TrueDiv(cpu_delta, system_cpu_delta),
                                         stats.ncores), 100)]
          ELSE [exc |-> "none", v |-> Frac(0, 1)]

\* the body of get_resource_usage after stats were read: a ResourceUsage or
\* the exception that escapes
UsageOf(stats) ==
  LET cpu == CpuUsage(stats) IN
  IF cpu.exc # "none" THEN [exc |-> cpu.exc, usage |-> NoUsage]
  ELSE IF ~stats.has_mem THEN [exc |-> "KeyError", usage |-> NoUsage]
  ELSE IF stats.blkio = "null" THEN [exc |-> "TypeError", usage |-> NoUsage]
  ELSE
    LET network_rx == IF stats.has_networks THEN SumRx(stats.networks) ELSE 0
        network_tx == IF stats.has_networks THEN SumTx(stats.networks) ELSE 0
        block_read ==
          IF stats.blkio = "list" THEN SumOp(stats.blkio_items, "Read") ELSE 0
        block_write ==
          IF stats.blkio = "list" THEN SumOp(stats.blkio_items, "Write") ELSE 0
        pids ==
          IF stats.has_pids_stats /\ stats.has_current THEN stats.current ELSE 0
        r == ResourceUsage(SomeFloat(cpu.v), SomeInt(stats.mem),
                           SomeInt(network_rx), SomeInt(network_tx),
                           SomeInt(block_read), SomeInt(block_write),
                           SomeInt(pids))
    IN IF r.exc # "none" THEN [exc |-> r.exc, usage |-> NoUsage]
       ELSE [exc |-> "none", usage |-> SomeUsage(r.value)]

get_resource_usage(cs, nid, container_id, stats, fail) ==
  LET n == Resolve(cs, container_id)
      probe == <<Call("get", container_id)>>
  IN
  IF fail = "stats_get" THEN Outcome(cs, nid, RObj(NoUsage), "none", probe)
  ELSE IF n = "" THEN Outcome(cs, nid, RObj(NoUsage), "none", probe)
  ELSE
    LET calls == Append(probe, Call("stats", n)) IN
    IF fail = "stats" THEN Outcome(cs, nid, RObj(NoUsage), "none", calls)
    ELSE LET u == UsageOf(stats) IN
         IF u.exc # "none" THEN Outcome(cs, nid, RNone, u.exc, calls)
         ELSE Outcome(cs, nid, RObj(u.usage), "none", calls)

\* "" is None
_get_health_status(container) == container.health

check_container_status(cs, nid, container_id, stats, fail, time) ==
  LET n == Resolve(cs, container_id)
      probe == <<Call("get", container_id)>>
  IN
  IF fail = "get"
  THEN Outcome(cs, nid, RObj(MCPServerStatus("ERROR", NoUsage, "", time)),
               "none", probe)
  ELSE IF n = ""
  THEN Outcome(cs, nid, RObj(MCPServerStatus("UNKNOWN", NoUsage, "", time)),
               "none", probe)
  ELSE
    LET reloaded == Append(probe, Call("reload", n)) IN
    IF fail = "reload"
    THEN Outcome(cs, nid, RObj(MCPServerStatus("ERROR", NoUsage, "", time)),
                 "none", reloaded)
    ELSE
      LET status == from_docker_status(cs[n].status)
          u == get_resource_usage(cs, nid, container_id, stats, fail)
          calls == reloaded \o u.calls
      IN IF u.exc # "none" THEN Outcome(cs, nid, RNone, u.exc, calls)
         ELSE Outcome(cs, nid,
                      RObj(MCPServerStatus(status, u.ret.o,
                                           _get_health_status(cs[n]), time)),
                      "none", calls)

\* health_check that looks at the daemon status only
health_check_statusonly(cs, nid, container_id, fail) ==
  LET n == Resolve(cs, container_id)
      probe == <<Call("get", container_id)>>
  IN
  IF fail = "get" \/ n = "" THEN Outcome(cs, nid, RBool(FALSE), "none", probe)
  ELSE IF fail = "reload"
  THEN Outcome(cs, nid, RBool(FALSE), "none", Append(probe, Call("reload", n)))
  ELSE Outcome(cs, nid, RBool(cs[n].status = "running"), "none",
               Append(probe, Call("reload", n)))

health_check(cs, nid, container_id, fail) ==
  LET n == Resolve(cs, container_id)
      probe == <<Call("get", container_id)>>
  IN
  IF fail = "get" THEN Outcome(cs, nid, RBool(FALSE), "none", probe)
  ELSE IF n = "" THEN Outcome(cs, nid, RBool(FALSE), "none", probe)
  ELSE
    LET calls == Append(probe, Call("reload", n)) IN
    IF fail = "reload" THEN Outcome(cs, nid, RBool(FALSE), "none", calls)
    ELSE LET health_status == _get_health_status(cs[n]) IN
         IF health_status # ""
         THEN Outcome(cs, nid, RBool(health_status = "healthy"), "none", calls)
         ELSE Outcome(cs, nid, RBool(cs[n].status = "running"), "none", calls)

\* StatusMonitor.get_running_containers: the ids of the containers the daemon
\* lists under the filter status=running, [] when the daemon fails
get_running_containers(cs, nid, fail) ==
  LET calls == <<Call("list", "running")>> IN
  IF fail = "list" THEN Outcome(cs, nid, RObj({}), "none", calls)
  ELSE Outcome(cs, nid,
               RObj({cs[n].id : n \in {m \in Names : cs[m].exists
                                         /\ cs[m].status = "running"}}),
               "none", calls)

\* ------------------------------------------------------------------------
\* ContainerInfo, MCPServerData and ServerRegistry (data/models.py)
\* ------------------------------------------------------------------------
\* Optional[ContainerInfo]; container_id "" is None
NoInfo == [some |-> FALSE, container_id |-> "", container_name |-> ""]
ContainerInfo(container_id, container_name) ==
  [some |-> TRUE, container_id |-> container_id,
   container_name |-> container_name]

get_container_info(cs, nid, container_id, fail) ==
  LET n == Resolve(cs, container_id)
      probe == <<Call("get", container_id)>>
  IN
  IF fail = "get" THEN Outcome(cs, nid, RNone, "DockerException", probe)
  ELSE IF n = "" THEN Outcome(cs, nid, RObj(NoInfo), "none", probe)
  ELSE
    LET calls == Append(probe, Call("reload", n)) IN
    IF fail = "reload" THEN Outcome(cs, nid, RNone, "DockerException", calls)
    ELSE Outcome(cs, nid, RObj(ContainerInfo(cs[n].id, n)), "none", calls)

\* a slot of registry.servers: MCPServerData, or no entry under that key
NoStatus == MCPServerStatus("UNKNOWN", NoUsage, "", 0)
NoServer ==
  [present |-> FALSE, config |-> Config("", <<>>), status |-> NoStatus,
   container_info |-> NoInfo]
MCPServerData(config, status, container_info) ==
  [present |-> TRUE, config |-> config, status |-> status,
   container_info |-> container_info]

\* the registry: servers by key, the insertion order of the keys (a dict
\* keeps it) and last_updated
Registry(servers, order, last_updated) ==
  [servers |-> servers, order |-> order, last_updated |-> last_updated]

RemoveKey(order, name) == SelectSeq(order, LAMBDA k : k # name)

\* add_server that replaces the record of a name already registered
add_server_overwrite(reg, config, time) ==
  [reg |-> Registry(
             [reg.servers EXCEPT ![config.name] =
                MCPServerData(config,
                              MCPServerStatus("UNKNOWN", NoUsage, "", time),
                              NoInfo)],
             IF reg.servers[config.name].present THEN reg.order
             ELSE Append(reg.order, config.name), time),
   ret |-> ~reg.servers[config.name].present]

add_server(reg, config, time) ==
  IF reg.servers[config.name].present THEN [reg |-> reg, ret |-> FALSE]
  ELSE [reg |-> Registry(
                  [reg.servers EXCEPT ![config.name] =
                     MCPServerData(config,
                                   MCPServerStatus("UNKNOWN", NoUsage, "", time),
                                   NoInfo)],
                  Append(reg.order, config.name), time),
        ret |-> TRUE]

remove_server(reg, name, time) ==
  IF ~reg.servers[name].present THEN [reg |-> reg, ret |-> FALSE]
  ELSE [reg |-> Registry([reg.servers EXCEPT ![name] = NoServer],
                         RemoveKey(reg.order, name), time),
        ret |-> TRUE]

update_server_status(reg, name, status, time) ==
  IF ~reg.servers[name].present THEN [reg |-> reg, ret |-> FALSE]
  ELSE [reg |-> Registry([reg.servers EXCEPT ![name].status = status],
                         reg.order, time),
        ret |-> TRUE]

\* the record under name takes the config as it is given, whatever its name
update_server_config(reg, name, config, time) ==
  IF ~reg.servers[name].present THEN [reg |-> reg, ret |-> FALSE]
  ELSE [reg |-> Registry([reg.servers EXCEPT ![name].config = config],
                         reg.order, time),
        ret |-> TRUE]

\* MCPServerData.update_container_info on the record under a key
update_container_info(reg, name, container_info) ==
  [reg EXCEPT !.servers[name].container_info = container_info]

\* ------------------------------------------------------------------------
\* MCPServerManager
\* ------------------------------------------------------------------------
\* a daemon failure during an orchestrator call: the sub-component call it
\* hits ("cm" lifecycle, "info" get_container_info, "sm" monitor) and the
\* primitive
Fail(stage, point) == [stage |-> stage, point |-> point]
NoFail == Fail("none", "none")
FailAt(fail, stage) == IF fail.stage = stage THEN fail.point ELSE "none"

\* result = f(...) followed by the statements that use result: the call is
\* made once and its value is what the rest reads
Bind(result, rest(_)) == CHOOSE v \in {rest(r) : r \in {result}} : TRUE

\* the daemon after another client removed the container
Removed(cs, container_id) ==
  LET n == Resolve(cs, container_id) IN
  IF n = "" THEN cs ELSE [cs EXCEPT ![n] = NoContainer]

\* what an orchestrator operation hands back
OrchOutcome(cs, nid, reg, ret, exc, calls) ==
  [cs |-> cs, nid |-> nid, reg |-> reg, ret |-> ret, exc |-> exc,
   calls |-> calls]

HasContainerId(server_data) ==
  server_data.present /\ server_data.container_info.some
  /\ server_data.container_info.container_id # ""

\* start_server without the lookup guard
start_server_nolookup(cs, nid, reg, name, stats, fail, time) ==
  LET server_data == reg.servers[name]
      st == start_container(cs, nid, server_data.config, FailAt(fail, "cm"))
  IN OrchOutcome(cs, nid, reg, RBool(FALSE), "none",
                 <<Call("start_container", server_data.config.name)>>
                   \o st.calls)

\* MCPServerManager.start_server; the daemon serves other clients too, and
\* with the failure "gone" one of them removes the container after its start
start_server(cs, nid, reg, name, stats, fail, time) ==
  LET server_data == reg.servers[name] IN
  IF ~server_data.present
  THEN OrchOutcome(cs, nid, reg, RBool(FALSE), "none", <<>>)
  ELSE
    Bind(start_container(cs, nid, server_data.config, FailAt(fail, "cm")),
         LAMBDA st :
    LET c1 == <<Call("start_container", server_data.config.name)>> \o st.calls
    IN
    IF st.exc # "none"
    THEN OrchOutcome(st.cs, st.nid, reg, RBool(FALSE), "none", c1)
    ELSE
      LET container_id == st.ret.s
          fetch == ~server_data.container_info.some
          cs1 == IF FailAt(fail, "info") = "gone"
                 THEN Removed(st.cs, container_id)
                 ELSE st.cs
      IN
      Bind(get_container_info(cs1, st.nid, container_id,
                              FailAt(fail, "info")),
           LAMBDA gi :
      LET c2 == IF fetch
                THEN c1 \o <<Call("get_container_info", container_id)>>
                        \o gi.calls
                ELSE c1
      IN
      IF fetch /\ gi.exc # "none"
      THEN OrchOutcome(cs1, st.nid, reg, RBool(FALSE), "none", c2)
      ELSE
        LET info == IF fetch THEN gi.ret.o
                    ELSE [server_data.container_info
                            EXCEPT !.container_id = container_id]
            reg2 == [reg EXCEPT !.servers[name].container_info = info]
        IN
        Bind(check_container_status(cs1, st.nid, container_id, stats,
                                    FailAt(fail, "sm"), time),
             LAMBDA ck :
        LET c3 == c2 \o <<Call("check_container_status", container_id)>>
                     \o ck.calls
        IN
        IF ck.exc # "none"
        THEN OrchOutcome(cs1, st.nid, reg2, RBool(FALSE), "none", c3)
        ELSE OrchOutcome(cs1, st.nid,
                         [reg2 EXCEPT !.servers[name].status = ck.ret.o],
                         RBool(TRUE), "none", c3))))

\* stop_server without its except clause
stop_server_uncaught(cs, nid, reg, name, stats, fail, time) ==
  LET server_data == reg.servers[name] IN
  IF ~HasContainerId(server_data)
  THEN OrchOutcome(cs, nid, reg, RBool(FALSE), "none", <<>>)
  ELSE
    LET container_id == server_data.container_info.container_id IN
    Bind(stop_container(cs, nid, container_id, FailAt(fail, "cm")),
         LAMBDA sp :
    LET c1 == <<Call("stop_container", container_id)>> \o sp.calls IN
    IF sp.exc # "none"
    THEN OrchOutcome(sp.cs, sp.nid, reg, RNone, sp.exc, c1)
    ELSE IF sp.ret.b
    THEN
      Bind(check_container_status(sp.cs, sp.nid, container_id, stats,
                                  FailAt(fail, "sm"), time),
           LAMBDA ck :
      LET c2 == c1 \o <<Call("check_container_status", container_id)>>
                   \o ck.calls
      IN
      IF ck.exc # "none"
      THEN OrchOutcome(sp.cs, sp.nid, reg, RNone, ck.exc, c2)
      ELSE OrchOutcome(sp.cs, sp.nid,
                       [reg EXCEPT !.servers[name].status = ck.ret.o],
                       RBool(TRUE), "none", c2))
    ELSE OrchOutcome(sp.cs, sp.nid, reg, RBool(FALSE), "none", c1))

stop_server(cs, nid, reg, name, stats, fail, time) ==
  LET server_data == reg.servers[name] IN
  IF ~HasContainerId(server_data)
  THEN OrchOutcome(cs, nid, reg, RBool(FALSE), "none", <<>>)
  ELSE
    LET container_id == server_data.container_info.container_id IN
    Bind(stop_container(cs, nid, container_id, FailAt(fail, "cm")),
         LAMBDA sp :
    LET c1 == <<Call("stop_container", container_id)>> \o sp.calls IN
    IF sp.exc # "none"
    THEN OrchOutcome(sp.cs, sp.nid, reg, RBool(FALSE), "none", c1)
    ELSE IF sp.ret.b
    THEN
      Bind(check_container_status(sp.cs, sp.nid, container_id, stats,
                                  FailAt(fail, "sm"), time),
           LAMBDA ck :
      LET c2 == c1 \o <<Call("check_container_status", container_id)>>
                   \o ck.calls
      IN
      IF ck.exc # "none"
      THEN OrchOutcome(sp.cs, sp.nid, reg, RBool(FALSE), "none", c2)
      ELSE OrchOutcome(sp.cs, sp.nid,
                       [reg EXCEPT !.servers[name].status = ck.ret.o],
                       RBool(TRUE), "none", c2))
    ELSE OrchOutcome(sp.cs, sp.nid, reg, RBool(FALSE), "none", c1))

restart_server(cs, nid, reg, name, stats, fail, time) ==
  LET server_data == reg.servers[name] IN
  IF ~HasContainerId(server_data)
  THEN OrchOutcome(cs, nid, reg, RBool(FALSE), "none", <<>>)
  ELSE
    LET container_id == server_data.container_info.container_id IN
    Bind(restart_container(cs, nid, container_id, FailAt(fail, "cm")),
         LAMBDA rs :
    LET c1 == <<Call("restart_container", container_id)>> \o rs.calls IN
    IF rs.exc # "none"
    THEN OrchOutcome(rs.cs, rs.nid, reg, RBool(FALSE), "none", c1)
    ELSE IF rs.ret.b
    THEN
      Bind(check_container_status(rs.cs, rs.nid, container_id, stats,
                                  FailAt(fail, "sm"), time),
           LAMBDA ck :
      LET c2 == c1 \o <<Call("check_container_status", container_id)>>
                   \o ck.calls
      IN
      IF ck.exc # "none"
      THEN OrchOutcome(rs.cs, rs.nid, reg, RBool(FALSE), "none", c2)
      ELSE OrchOutcome(rs.cs, rs.nid,
                       [reg EXCEPT !.servers[name].status = ck.ret.o],
                       RBool(TRUE), "none", c2))
    ELSE OrchOutcome(rs.cs, rs.nid, reg, RBool(FALSE), "none", c1))

get_server_status(cs, nid, reg, name, stats, fail, time) ==
  LET server_data == reg.servers[name] IN
  IF ~HasContainerId(server_data)
  THEN OrchOutcome(cs, nid, reg, RNone, "none", <<>>)
  ELSE
    LET container_id == server_data.container_info.container_id IN
    Bind(check_container_status(cs, nid, container_id, stats,
                                FailAt(fail, "sm"), time),
         LAMBDA ck :
    LET c1 == <<Call("check_container_status", container_id)>> \o ck.calls
    IN
    IF ck.exc # "none" THEN OrchOutcome(cs, nid, reg, RNone, "none", c1)
    ELSE OrchOutcome(cs, nid, [reg EXCEPT !.servers[name].status = ck.ret.o],
                     ck.ret, "none", c1))

\* start_all_servers / stop_all_servers: the loop over the keys, with the
\* stats payload and the failure each server meets; results keeps the dict's
\* insertion order as <<name, value>> pairs
\* the loop of start_all_servers leaving at the first server that fails
RECURSIVE StartEach_abort(_, _, _, _, _, _, _, _, _)
StartEach_abort(names, cs, nid, reg, statsOf, failOf, time, results, calls) ==
  IF names = <<>>
  THEN OrchOutcome(cs, nid, reg, RObj(results), "none", calls)
  ELSE
    LET name == Head(names) IN
    Bind(start_server(cs, nid, reg, name, statsOf[name], failOf[name], time),
         LAMBDA r :
    IF ~r.ret.b
    THEN OrchOutcome(r.cs, r.nid, r.reg,
                     RObj(Append(results, <<name, FALSE>>)), "none",
                     calls \o <<Call("start_server", name)>> \o r.calls)
    ELSE StartEach_abort(Tail(names), r.cs, r.nid, r.reg, statsOf, failOf,
                         time, Append(results, <<name, r.ret.b>>),
                         calls \o <<Call("start_server", name)>> \o r.calls))

RECURSIVE StartEach(_, _, _, _, _, _, _, _, _)
StartEach(names, cs, nid, reg, statsOf, failOf, time, results, calls) ==
  IF names = <<>>
  THEN OrchOutcome(cs, nid, reg, RObj(results), "none", calls)
  ELSE
    LET name == Head(names) IN
    Bind(start_server(cs, nid, reg, name, statsOf[name], failOf[name], time),
         LAMBDA r :
    StartEach(Tail(names), r.cs, r.nid, r.reg, statsOf, failOf, time,
              Append(results, <<name, r.ret.b>>),
              calls \o <<Call("start_server", name)>> \o r.calls))

RECURSIVE StopEach(_, _, _, _, _, _, _, _, _)
StopEach(names, cs, nid, reg, statsOf, failOf, time, results, calls) ==
  IF names = <<>>
  THEN OrchOutcome(cs, nid, reg, RObj(results), "none", calls)
  ELSE
    LET name == Head(names) IN
    Bind(stop_server(cs, nid, reg, name, statsOf[name], failOf[name], time),
         LAMBDA r :
    StopEach(Tail(names), r.cs, r.nid, r.reg, statsOf, failOf, time,
             Append(results, <<name, r.ret.b>>),
             calls \o <<Call("stop_server", name)>> \o r.calls))

\* reversed(list(...))
Reversed(seq) == [i \in 1..Len(seq) |-> seq[Len(seq) + 1 - i]]

\* stop_all_servers without reversed()
stop_all_servers_forward(cs, nid, reg, statsOf, failOf, time) ==
  StopEach(reg.order, cs, nid, reg, statsOf, failOf, time, <<>>, <<>>)

start_all_servers(cs, nid, reg, statsOf, failOf, time) ==
  StartEach(reg.order, cs, nid, reg, statsOf, failOf, time, <<>>, <<>>)

stop_all_servers(cs, nid, reg, statsOf, failOf, time) ==
  StopEach(Reversed(reg.order), cs, nid, reg, statsOf, failOf, time, <<>>, <<>>)

\* list(self.registry.servers.values())
Listing(reg) == [i \in 1..Len(reg.order) |-> reg.servers[reg.order[i]]]

\* the loop of list_all_servers without its except clause: the first refresh
\* that raises ends the listing
RECURSIVE ListEach_abort(_, _, _, _, _, _, _, _)
ListEach_abort(names, cs, nid, reg, statsOf, failOf, time, calls) ==
  IF names = <<>>
  THEN OrchOutcome(cs, nid, reg, RObj(Listing(reg)), "none", calls)
  ELSE
    LET name == Head(names)
        server_data == reg.servers[name]
    IN
    IF HasContainerId(server_data)
    THEN
      LET container_id == server_data.container_info.container_id IN
      Bind(check_container_status(cs, nid, container_id, statsOf[name],
                                  FailAt(failOf[name], "sm"), time),
           LAMBDA ck :
      LET c1 == calls \o <<Call("check_container_status", container_id)>>
                      \o ck.calls
      IN IF ck.exc # "none"
         THEN OrchOutcome(cs, nid, reg, RNone, ck.exc, c1)
         ELSE ListEach_abort(Tail(names), cs, nid,
                             [reg EXCEPT !.servers[name].status = ck.ret.o],
                             statsOf, failOf, time, c1))
    ELSE ListEach_abort(Tail(names), cs, nid, reg, statsOf, failOf, time,
                        calls)

\* the loop of list_all_servers over registry.servers.items()
RECURSIVE ListEach(_, _, _, _, _, _, _, _)
ListEach(names, cs, nid, reg, statsOf, failOf, time, calls) ==
  IF names = <<>>
  THEN OrchOutcome(cs, nid, reg, RObj(Listing(reg)), "none", calls)
  ELSE
    LET name == Head(names)
        server_data == reg.servers[name]
    IN
    IF HasContainerId(server_data)
    THEN
      LET container_id == server_data.container_info.container_id IN
      Bind(check_container_status(cs, nid, container_id, statsOf[name],
                                  FailAt(failOf[name], "sm"), time),
           LAMBDA ck :
      LET c1 == calls \o <<Call("check_container_status", container_id)>>
                      \o ck.calls
          status == IF ck.exc # "none"
                    THEN MCPServerStatus("ERROR", NoUsage, "", time)
                    ELSE ck.ret.o
      IN ListEach(Tail(names), cs, nid,
                  [reg EXCEPT !.servers[name].status = status],
                  statsOf, failOf, time, c1))
    ELSE ListEach(Tail(names), cs, nid, reg, statsOf, failOf, time, calls)

list_all_servers(cs, nid, reg, statsOf, failOf, time) ==
  ListEach(reg.order, cs, nid, reg, statsOf, failOf, time, <<>>)

\* the loop of monitor_all_containers without the guard on container_info
RECURSIVE MonitorEach_noguard(_, _, _, _, _, _, _, _, _)
MonitorEach_noguard(names, cs, nid, reg, statsOf, failOf, time, status_map, calls) ==
  IF names = <<>>
  THEN OrchOutcome(cs, nid, reg, RObj(status_map), "none", calls)
  ELSE
    LET name == Head(names)
        container_id == reg.servers[name].container_info.container_id
        ck == check_container_status(cs, nid, container_id, statsOf[name],
                                     FailAt(failOf[name], "sm"), time)
        c1 == calls \o <<Call("check_container_status", container_id)>>
                    \o ck.calls
    IN IF ck.exc # "none"
       THEN OrchOutcome(cs, nid, reg, RNone, ck.exc, c1)
       ELSE MonitorEach_noguard(Tail(names), cs, nid, reg, statsOf, failOf,
                                time, Append(status_map, <<name, ck.ret.o>>),
                                c1)

\* the loop of monitor_all_containers storing each status it obtains in the
\* record of the server
RECURSIVE MonitorEach_writeback(_, _, _, _, _, _, _, _, _)
MonitorEach_writeback(names, cs, nid, reg, statsOf, failOf, time, status_map, calls) ==
  IF names = <<>>
  THEN OrchOutcome(cs, nid, reg, RObj(status_map), "none", calls)
  ELSE
    LET name == Head(names)
        server_data == reg.servers[name]
    IN
    IF HasContainerId(server_data)
    THEN
      LET container_id == server_data.container_info.container_id IN
      Bind(check_container_status(cs, nid, container_id, statsOf[name],
                                  FailAt(failOf[name], "sm"), time),
           LAMBDA ck :
      LET c1 == calls \o <<Call("check_container_status", container_id)>>
                      \o ck.calls
      IN IF ck.exc # "none"
         THEN OrchOutcome(cs, nid, reg, RNone, ck.exc, c1)
         ELSE MonitorEach_writeback(
                Tail(names), cs, nid,
                [reg EXCEPT !.servers[name].status = ck.ret.o],
                statsOf, failOf, time,
                Append(status_map, <<name, ck.ret.o>>), c1))
    ELSE MonitorEach_writeback(Tail(names), cs, nid, reg, statsOf, failOf,
                               time, status_map, calls)

\* StatusMonitor.monitor_all_containers: an exception of check_container_status
\* is not caught by the loop
RECURSIVE MonitorEach(_, _, _, _, _, _, _, _, _)
MonitorEach(names, cs, nid, reg, statsOf, failOf, time, status_map, calls) ==
  IF names = <<>>
  THEN OrchOutcome(cs, nid, reg, RObj(status_map), "none", calls)
  ELSE
    LET name == Head(names)
        server_data == reg.servers[name]
    IN
    IF HasContainerId(server_data)
    THEN
      LET container_id == server_data.container_info.container_id IN
      Bind(check_container_status(cs, nid, container_id, statsOf[name],
                                  FailAt(failOf[name], "sm"), time),
           LAMBDA ck :
      LET c1 == calls \o <<Call("check_container_status", container_id)>>
                      \o ck.calls
      IN IF ck.exc # "none"
         THEN OrchOutcome(cs, nid, reg, RNone, ck.exc, c1)
         ELSE MonitorEach(Tail(names), cs, nid, reg, statsOf, failOf, time,
                          Append(status_map, <<name, ck.ret.o>>), c1))
    ELSE MonitorEach(Tail(names), cs, nid, reg, statsOf, failOf, time,
                     status_map, calls)

monitor_all_containers(cs, nid, reg, statsOf, failOf, time) ==
  MonitorEach(reg.order, cs, nid, reg, statsOf, failOf, time, <<>>, <<>>)

\* ------------------------------------------------------------------------
\* State
\* ------------------------------------------------------------------------
VARIABLES
  containers,   \* the daemon's containers, by name
  nextId,       \* index into IdPool of the id the daemon hands out next
  registry,     \* MCPServerManager.registry
  now,          \* datetime.now()
  last,         \* the operation that has just completed: inputs and outcome
  pre,          \* the daemon and the registry as that operation found them
  prev,         \* the Start of the same config that completed right before it
  ops,          \* how many calls the front end has made to the manager
  callers       \* the start_container calls in flight, by calling thread

vars == <<containers, nextId, registry, now, last, pre, prev, ops, callers>>

\* largest reading of the clock
MaxClock == 1
\* number of calls the front end makes to the manager in one behaviour
MaxOps == 4

NoFields ==
  [cpu_usage |-> NoFloat, memory_usage |-> NoInt, network_rx |-> NoInt,
   network_tx |-> NoInt, block_read |-> NoInt, block_write |-> NoInt,
   pids |-> NoInt]

NoStats ==
  Stats(0, 0, FALSE, 0, FALSE, 0, FALSE, 0, FALSE, 0, FALSE, <<>>, "absent",
        <<>>, FALSE, FALSE, 0)

NoConfig == Config("", <<>>)

\* a completed operation; inputs is what the daemon answered during it (the
\* stats payloads and the failures)
Op(op, ref, config, inputs, out) ==
  [op |-> op, ref |-> ref, config |-> config, inputs |-> inputs,
   ret |-> out.ret, exc |-> out.exc, calls |-> out.calls]

\* stats and fail are the answers of the daemon to a call on one container,
\* statsOf and failOf its answers per server during an orchestrator call
NoInputs ==
  [stats |-> NoStats, fields |-> NoFields, fail |-> "none",
   statsOf |-> [n \in Names |-> NoStats], failOf |-> [n \in Names |-> NoFail]]

NoOp ==
  [op |-> "", ref |-> "", config |-> NoConfig, inputs |-> NoInputs,
   ret |-> RNone, exc |-> "none", calls |-> <<>>]

EmptyDaemon == [n \in Names |-> NoContainer]
EmptyRegistry == Registry([n \in Names |-> NoServer], <<>>, 0)
NoSnapshot == [cs |-> EmptyDaemon, nid |-> 1, reg |-> EmptyRegistry]
Snapshot == [cs |-> containers, nid |-> nextId, reg |-> registry]

\* how often a primitive occurs in a call list
RECURSIVE Count(_, _)
Count(calls, prim) ==
  IF calls = <<>> THEN 0
  ELSE (IF Head(calls)[1] = prim THEN 1 ELSE 0) + Count(Tail(calls), prim)

\* what is kept of a Start that returned, for the Start that follows it
NoPrev ==
  [config |-> NoConfig, id |-> "", pulls |-> 0, runs |-> 0, running |-> FALSE]
PrevOf(op, found_running) ==
  [config |-> op.config, id |-> op.ret.s, pulls |-> Count(op.calls, "pull"),
   runs |-> Count(op.calls, "run"), running |-> found_running]

\* the threads that call start_container of one ContainerManager at the same
\* time
Callers == {"t1", "t2"}

\* a thread's call of start_container: where it stands (pc), its config, what
\* its probe reported, the daemon calls it has made and how it ended
Idle ==
  [pc |-> "idle", config |-> NoConfig, seen |-> "", id |-> "", calls |-> <<>>,
   ret |-> RNone, exc |-> "none"]
NoCallers == [t \in Callers |-> Idle]

Init ==
  /\ containers = EmptyDaemon
  /\ nextId = 1
  /\ registry = EmptyRegistry
  /\ now = 0
  /\ last = NoOp
  /\ pre = NoSnapshot
  /\ prev = NoPrev
  /\ ops = 0
  /\ callers = NoCallers

\* a run of a new container needs an id the pool still has
CanRun(cs, nid, config) ==
  Resolve(cs, config.name) = "" => nid <= MaxIds

\* ------------------------------------------------------------------------
\* The daemon and the clock move on their own; what is remembered of the last
\* operation is dropped then
\* ------------------------------------------------------------------------
Forget ==
  /\ last' = NoOp
  /\ pre' = NoSnapshot
  /\ prev' = NoPrev

DaemonStatusStep ==
  \E n \in Names, status \in DockerStatuses :
    /\ containers[n].exists
    /\ containers[n].status # status
    /\ containers' = SetStatus(containers, n, status)
    /\ Forget
    /\ UNCHANGED <<nextId, registry, now, ops, callers>>

DaemonHealthStep ==
  \E n \in Names, health \in HealthValues :
    /\ containers[n].exists
    /\ containers[n].health # health
    /\ containers' = [containers EXCEPT ![n].health = health]
    /\ Forget
    /\ UNCHANGED <<nextId, registry, now, ops, callers>>

Tick ==
  /\ now < MaxClock
  /\ now' = now + 1
  /\ Forget
  /\ UNCHANGED <<containers, nextId, registry, ops, callers>>

\* ------------------------------------------------------------------------
\* ContainerManager operations
\* ------------------------------------------------------------------------
Lifecycle(op, ref, config, fail, out) ==
  /\ containers' = out.cs
  /\ nextId' = out.nid
  /\ last' = Op(op, ref, config, [NoInputs EXCEPT !.fail = fail], out)
  /\ pre' = Snapshot
  /\ UNCHANGED <<registry, now, ops, callers>>

Start ==
  \E config \in Configs,
     fail \in {"none", "get", "start", "pull", "run", "noid"} :
    /\ CanRun(containers, nextId, config)
    /\ Lifecycle("start", config.name, config, fail,
                 start_container(containers, nextId, config, fail))
    /\ prev' = IF last.op = "start" /\ last.exc = "none"
                  /\ last.config = config
               THEN PrevOf(last, LET n == Resolve(pre.cs, config.name)
                                 IN n # "" /\ pre.cs[n].status = "running")
               ELSE NoPrev

Stop ==
  \E ref \in Refs, fail \in {"none", "get", "stop"} :
    /\ Lifecycle("stop", ref, NoConfig, fail,
                 stop_container(containers, nextId, ref, fail))
    /\ prev' = NoPrev

Restart ==
  \E ref \in Refs, fail \in {"none", "get", "restart"} :
    /\ Lifecycle("restart", ref, NoConfig, fail,
                 restart_container(containers, nextId, ref, fail))
    /\ prev' = NoPrev

Remove ==
  \E ref \in Refs, fail \in {"none", "get", "remove"} :
    /\ Lifecycle("remove", ref, NoConfig, fail,
                 remove_container(containers, nextId, ref, fail))
    /\ prev' = NoPrev

GetStatus ==
  \E ref \in Refs, fail \in {"none", "get", "reload"} :
    /\ Lifecycle("get_status", ref, NoConfig, fail,
                 get_container_status(containers, nextId, ref, fail))
    /\ prev' = NoPrev

NextCM ==
  \/ Start
  \/ Stop
  \/ Restart
  \/ Remove
  \/ GetStatus
  \/ DaemonStatusStep

SpecCM == Init /\ [][NextCM]_vars

\* ------------------------------------------------------------------------
\* StatusMonitor operations
\* ------------------------------------------------------------------------
\* the daemon as the monitor can find it when it connects: no container, or
\* the container "a" that an earlier Start has run
InitDaemon ==
  \/ /\ containers = EmptyDaemon
     /\ nextId = 1
  \/ /\ containers =
          [EmptyDaemon EXCEPT !["a"] = Container(IdPool[1], "running", "")]
     /\ nextId = 2

InitSM ==
  /\ InitDaemon
  /\ registry = EmptyRegistry
  /\ now = 0
  /\ last = NoOp
  /\ pre = NoSnapshot
  /\ prev = NoPrev
  /\ ops = 0
  /\ callers = NoCallers

Inputs(stats, fields, fail) ==
  [NoInputs EXCEPT !.stats = stats, !.fields = fields, !.fail = fail]

Monitor(op, ref, inputs, out) ==
  /\ containers' = out.cs
  /\ nextId' = out.nid
  /\ last' = Op(op, ref, NoConfig, inputs, out)
  /\ pre' = Snapshot
  /\ prev' = NoPrev
  /\ UNCHANGED <<registry, now, ops, callers>>

CheckStatus ==
  \E ref \in Refs, stats \in SampleStats,
     fail \in {"none", "get", "reload", "stats_get", "stats"} :
    Monitor("check_status", ref, Inputs(stats, NoFields, fail),
            check_container_status(containers, nextId, ref, stats, fail, now))

GetResourceUsage ==
  \E ref \in Refs, stats \in SampleStats, fail \in {"none", "stats_get", "stats"} :
    Monitor("get_resource_usage", ref, Inputs(stats, NoFields, fail),
            get_resource_usage(containers, nextId, ref, stats, fail))

HealthCheck ==
  \E ref \in Refs, fail \in {"none", "get", "reload"} :
    Monitor("health_check", ref, Inputs(NoStats, NoFields, fail),
            health_check(containers, nextId, ref, fail))

ListRunning ==
  \E fail \in {"none", "list"} :
    Monitor("list_running", "", Inputs(NoStats, NoFields, fail),
            get_running_containers(containers, nextId, fail))

NextSM ==
  \/ CheckStatus
  \/ GetResourceUsage
  \/ HealthCheck
  \/ DaemonStatusStep
  \/ DaemonHealthStep
  \/ Tick

SpecSM == InitSM /\ [][NextSM]_vars

\* ------------------------------------------------------------------------
\* get_resource_usage and ResourceUsage(...) as functions of their inputs:
\* the initial state holds a call with its arguments and what the daemon
\* will answer, the actions make the call
\* ------------------------------------------------------------------------
\* arguments of ResourceUsage(...): absent, below, at and above the limits
CpuInputs ==
  {NoFloat, SomeFloat(Frac(-5, 1)), SomeFloat(Frac(0, 1)),
   SomeFloat(Frac(1, 2)), SomeFloat(Frac(100, 1)), SomeFloat(Frac(150, 1))}
IntInputs == {NoInt, SomeInt(-1), SomeInt(0)}
FieldInputs ==
  [cpu_usage : CpuInputs, memory_usage : IntInputs, network_rx : IntInputs,
   network_tx : IntInputs, block_read : IntInputs, block_write : IntInputs,
   pids : IntInputs]

Pending(op, ref, inputs) ==
  [NoOp EXCEPT !.op = op, !.ref = ref, !.inputs = inputs]

InitUsage ==
  /\ InitDaemon
  /\ registry = EmptyRegistry
  /\ now = 0
  /\ pre = NoSnapshot
  /\ prev = NoPrev
  /\ ops = 0
  /\ callers = NoCallers
  /\ \/ \E ref \in Refs, stats \in StatsPayloads, fail \in {"none", "stats"} :
          last = Pending("call get_resource_usage", ref,
                         Inputs(stats, NoFields, fail))
     \/ \E fields \in FieldInputs :
          last = Pending("call construct", "", Inputs(NoStats, fields, "none"))

MeasureUsage ==
  /\ last.op = "call get_resource_usage"
  /\ Monitor("get_resource_usage", last.ref, last.inputs,
             get_resource_usage(containers, nextId, last.ref,
                                last.inputs.stats, last.inputs.fail))

Construct ==
  /\ last.op = "call construct"
  /\ LET f == last.inputs.fields
         r == ResourceUsage(f.cpu_usage, f.memory_usage, f.network_rx,
                            f.network_tx, f.block_read, f.block_write, f.pids)
     IN Monitor("construct", "", last.inputs,
                Outcome(containers, nextId,
                        IF r.exc = "none" THEN RObj(SomeUsage(r.value))
                        ELSE RNone,
                        r.exc, <<>>))

NextUsage ==
  \/ MeasureUsage
  \/ Construct

SpecUsage == InitUsage /\ [][NextUsage]_vars

\* ------------------------------------------------------------------------
\* ServerRegistry and MCPServerManager operations
\* ------------------------------------------------------------------------
\* the commands of the registered configs: a supported run and an unsupported
\* sub-command
OrchCommands ==
  { <<"docker", "run", "-p", "8080:80", "nginx">>, <<"docker", "ps">> }

\* what update_container_info is called with
InfoInputs == {NoInfo, ContainerInfo("", "")}

\* the answers of the daemon during one orchestrator call: one server meets
\* a failure or a payload that ResourceUsage rejects, the others meet none
Trouble(fail, stats) == [fail |-> fail, stats |-> stats]
StatusTroubles ==
  {Trouble(NoFail, SteadyStats), Trouble(NoFail, HotStats),
   Trouble(Fail("sm", "get"), SteadyStats),
   Trouble(Fail("sm", "stats"), SteadyStats)}
StartTroubles ==
  StatusTroubles
    \cup {Trouble(Fail("cm", p), SteadyStats) :
            p \in {"get", "start", "pull", "run"}}
    \cup {Trouble(Fail("info", p), SteadyStats) : p \in {"get", "gone"}}
StopTroubles ==
  StatusTroubles
    \cup {Trouble(Fail("cm", p), SteadyStats) : p \in {"get", "stop"}}
RestartTroubles ==
  StatusTroubles
    \cup {Trouble(Fail("cm", p), SteadyStats) : p \in {"get", "restart"}}
BulkInputs(name, trouble) ==
  [NoInputs EXCEPT
     !.statsOf = [n \in Names |->
                    IF n = name THEN trouble.stats ELSE SteadyStats],
     !.failOf = [n \in Names |-> IF n = name THEN trouble.fail ELSE NoFail]]

\* the front end still has a call to make
CanCall == ops < MaxOps

Orchestrate(op, ref, config, inputs, out) ==
  /\ ops' = ops + 1
  /\ containers' = out.cs
  /\ nextId' = out.nid
  /\ registry' = out.reg
  /\ last' = Op(op, ref, config, inputs, out)
  /\ pre' = Snapshot
  /\ prev' = NoPrev
  /\ UNCHANGED <<now, callers>>

AddServer ==
  /\ CanCall
  /\ \E name \in Names, cmd \in OrchCommands :
       \E r \in {add_server(registry, Config(name, cmd), now)} :
         Orchestrate("add_server", name, Config(name, cmd), NoInputs,
                     OrchOutcome(containers, nextId, r.reg, RBool(r.ret),
                                 "none", <<>>))

RemoveServer ==
  /\ CanCall
  /\ \E name \in Names :
       \E r \in {remove_server(registry, name, now)} :
         Orchestrate("remove_server", name, NoConfig, NoInputs,
                     OrchOutcome(containers, nextId, r.reg, RBool(r.ret),
                                 "none", <<>>))

UpdateContainerInfo ==
  /\ CanCall
  /\ \E name \in Names, info \in InfoInputs :
       /\ registry.servers[name].present
       /\ Orchestrate("update_container_info", name, NoConfig, NoInputs,
                      OrchOutcome(containers, nextId,
                                  update_container_info(registry, name, info),
                                  RNone, "none", <<>>))

\* what update_server_status is called with
StatusInputs ==
  {MCPServerStatus("RUNNING", NoUsage, "healthy", now),
   MCPServerStatus("STOPPED", NoUsage, "", now)}

UpdateServerStatus ==
  /\ CanCall
  /\ \E name \in Names, status \in StatusInputs :
       \E r \in {update_server_status(registry, name, status, now)} :
         Orchestrate("update_server_status", name, NoConfig, NoInputs,
                     OrchOutcome(containers, nextId, r.reg, RBool(r.ret),
                                 "none", <<>>))

UpdateServerConfig ==
  /\ CanCall
  /\ \E name \in Names, cname \in Names, cmd \in OrchCommands :
       \E r \in {update_server_config(registry, name, Config(cname, cmd),
                                      now)} :
         Orchestrate("update_server_config", name, Config(cname, cmd),
                     NoInputs,
                     OrchOutcome(containers, nextId, r.reg, RBool(r.ret),
                                 "none", <<>>))

\* the registry on its own: its four mutating operations and the clock
NextReg ==
  \/ AddServer
  \/ RemoveServer
  \/ UpdateServerStatus
  \/ UpdateServerConfig
  \/ Tick

SpecReg == Init /\ [][NextReg]_vars

\* a start that runs a new container needs an id the pool still has
CanStart(name) ==
  registry.servers[name].present =>
    CanRun(containers, nextId, registry.servers[name].config)

StartServer ==
  /\ CanCall
  /\ \E name \in Names, trouble \in StartTroubles :
       /\ CanStart(name)
       /\ \E inputs \in {BulkInputs(name, trouble)} :
            \E out \in {start_server(containers, nextId, registry, name,
                                     inputs.statsOf[name], inputs.failOf[name],
                                     now)} :
              Orchestrate("start_server", name, NoConfig, inputs, out)

StopServer ==
  /\ CanCall
  /\ \E name \in Names, trouble \in StopTroubles :
       \E inputs \in {BulkInputs(name, trouble)} :
         \E out \in {stop_server(containers, nextId, registry, name,
                                 inputs.statsOf[name], inputs.failOf[name],
                                 now)} :
           Orchestrate("stop_server", name, NoConfig, inputs, out)

RestartServer ==
  /\ CanCall
  /\ \E name \in Names, trouble \in RestartTroubles :
       \E inputs \in {BulkInputs(name, trouble)} :
         \E out \in {restart_server(containers, nextId, registry, name,
                                    inputs.statsOf[name], inputs.failOf[name],
                                    now)} :
           Orchestrate("restart_server", name, NoConfig, inputs, out)

GetServerStatus ==
  /\ CanCall
  /\ \E name \in Names, trouble \in StatusTroubles :
       \E inputs \in {BulkInputs(name, trouble)} :
         \E out \in {get_server_status(containers, nextId, registry, name,
                                       inputs.statsOf[name],
                                       inputs.failOf[name], now)} :
           Orchestrate("get_server_status", name, NoConfig, inputs, out)

\* every start of the loop that runs a new container finds an id in the pool
CanStartAll ==
  nextId + Cardinality({n \in Names : registry.servers[n].present}) <= MaxIds + 1

StartAllServers ==
  /\ CanCall
  /\ CanStartAll
  /\ \E name \in Names, trouble \in StartTroubles :
       \E inputs \in {BulkInputs(name, trouble)} :
         \E out \in {start_all_servers(containers, nextId, registry,
                                       inputs.statsOf, inputs.failOf, now)} :
           Orchestrate("start_all", "", NoConfig, inputs, out)

StopAllServers ==
  /\ CanCall
  /\ \E name \in Names, trouble \in StopTroubles :
       \E inputs \in {BulkInputs(name, trouble)} :
         \E out \in {stop_all_servers(containers, nextId, registry,
                                      inputs.statsOf, inputs.failOf, now)} :
           Orchestrate("stop_all", "", NoConfig, inputs, out)

ListAllServers ==
  /\ CanCall
  /\ \E name \in Names, trouble \in StatusTroubles :
       \E inputs \in {BulkInputs(name, trouble)} :
         \E out \in {list_all_servers(containers, nextId, registry,
                                      inputs.statsOf, inputs.failOf, now)} :
           Orchestrate("list_all", "", NoConfig, inputs, out)

\* the front end removes a container through the manager's ContainerManager;
\* with the removal of a container its record goes as well
RemoveContainer_cascade ==
  /\ CanCall
  /\ \E ref \in Names, fail \in {"none", "remove"} :
       \E out \in {remove_container(containers, nextId, ref, fail)} :
         Orchestrate("remove", ref, NoConfig, [NoInputs EXCEPT !.fail = fail],
                     OrchOutcome(out.cs, out.nid,
                                 IF out.exc = "none"
                                 THEN remove_server(registry, ref, now).reg
                                 ELSE registry,
                                 out.ret, out.exc, out.calls))

\* the front end removes a container through the manager's ContainerManager,
\* which holds no reference to the registry
RemoveContainer ==
  /\ CanCall
  /\ \E ref \in Names, fail \in {"none", "remove"} :
       \E out \in {remove_container(containers, nextId, ref, fail)} :
         Orchestrate("remove", ref, NoConfig, [NoInputs EXCEPT !.fail = fail],
                     OrchOutcome(out.cs, out.nid, registry, out.ret, out.exc,
                                 out.calls))

MonitorAll ==
  /\ CanCall
  /\ \E name \in Names, trouble \in StatusTroubles :
       \E inputs \in {BulkInputs(name, trouble)} :
         \E out \in {monitor_all_containers(containers, nextId, registry,
                                            inputs.statsOf, inputs.failOf,
                                            now)} :
           Orchestrate("monitor_all", "", NoConfig, inputs, out)

NextOrch ==
  \/ AddServer
  \/ RemoveServer
  \/ UpdateContainerInfo
  \/ StartServer
  \/ StopServer
  \/ RestartServer
  \/ GetServerStatus
  \/ StartAllServers
  \/ StopAllServers
  \/ ListAllServers
  \/ RemoveContainer
  \/ MonitorAll

SpecOrch == Init /\ [][NextOrch]_vars

\* the StatusMonitor polled on a manager at work: the servers "a" and "b"
\* are registered and "a" has been started
Started ==
  start_server(EmptyDaemon, 1,
               add_server(add_server(EmptyRegistry,
                                     Config("a", <<"docker", "run", "nginx">>),
                                     0).reg,
                          Config("b", <<"docker", "ps">>), 0).reg,
               "a", SteadyStats, NoFail, 0)

InitMon ==
  /\ containers = Started.cs
  /\ nextId = Started.nid
  /\ registry = Started.reg
  /\ now = 0
  /\ last = NoOp
  /\ pre = NoSnapshot
  /\ prev = NoPrev
  /\ ops = 0
  /\ callers = NoCallers

NextMon ==
  \/ CheckStatus
  \/ GetResourceUsage
  \/ HealthCheck
  \/ ListRunning
  \/ MonitorAll
  \/ DaemonStatusStep

SpecMon == InitMon /\ [][NextMon]_vars

\* the listing with the clock: servers are registered and started, the clock
\* moves on, and the front end lists them
NextList ==
  \/ AddServer
  \/ StartAllServers
  \/ ListAllServers
  \/ Tick

SpecList == Init /\ [][NextList]_vars

\* ------------------------------------------------------------------------
\* start_container called by several threads: each call is a sequence of
\* requests to the daemon, and the requests of different calls interleave
\* ------------------------------------------------------------------------
\* the daemon before the calls: no container, or the container "a" of an
\* earlier Start that has exited since
InitRace ==
  /\ \/ /\ containers = EmptyDaemon
        /\ nextId = 1
     \/ /\ containers =
             [EmptyDaemon EXCEPT !["a"] = Container(IdPool[1], "exited", "")]
        /\ nextId = 2
  /\ registry = EmptyRegistry
  /\ now = 0
  /\ last = NoOp
  /\ pre = NoSnapshot
  /\ prev = NoPrev
  /\ ops = 0
  /\ callers = NoCallers

\* a thread's step changes its own call and the daemon only
OneCaller == UNCHANGED <<registry, now, last, pre, prev, ops>>

\* a thread enters start_container(config)
Begin(t) ==
  /\ callers[t].pc = "idle"
  /\ \E config \in Configs :
       callers' = [callers EXCEPT
                     ![t] = [Idle EXCEPT !.pc = "probe", !.config = config]]
  /\ UNCHANGED <<containers, nextId>>
  /\ OneCaller

\* the probe that waits while another thread's call for the same name is
\* between its probe and its return
Probe_locked(t) ==
  /\ callers[t].pc = "probe"
  /\ \A u \in Callers \ {t} :
       callers[u].config.name = callers[t].config.name =>
         callers[u].pc \in {"idle", "probe", "done"}
  /\ callers' = [callers EXCEPT ![t].pc = "pull", ![t].seen = "notfound"]
  /\ UNCHANGED <<containers, nextId>>
  /\ OneCaller

\* client.containers.get(config.name) and what follows it without another
\* request to the daemon: the return of a running container's id, or, after
\* NotFound, the translation of the command
Probe(t) ==
  /\ callers[t].pc = "probe"
  /\ LET c == callers[t]
         n == Resolve(containers, c.config.name)
         calls == <<Call("get", c.config.name)>>
         p == _parse_docker_command(c.config)
     IN callers' =
          [callers EXCEPT ![t] =
             IF n # "" /\ containers[n].status = "running"
             THEN [c EXCEPT !.pc = "done", !.seen = "running",
                            !.calls = calls, !.ret = RStr(containers[n].id)]
             ELSE IF n # ""
             THEN [c EXCEPT !.pc = "start", !.seen = "stopped",
                            !.id = containers[n].id, !.calls = calls]
             ELSE IF p.exc # "none"
             THEN [c EXCEPT !.pc = "done", !.seen = "notfound",
                            !.calls = calls, !.exc = p.exc]
             ELSE [c EXCEPT !.pc = "pull", !.seen = "notfound",
                            !.calls = calls]]
  /\ UNCHANGED <<containers, nextId>>
  /\ OneCaller

\* existing_container.start() and the return of its id
StartExisting(t) ==
  /\ callers[t].pc = "start"
  /\ LET c == callers[t]
         n == Resolve(containers, c.config.name)
         calls == Append(c.calls, Call("start", c.config.name))
     IN /\ n # ""
        /\ containers' = SetStatus(containers, n, "running")
        /\ callers' = [callers EXCEPT
                         ![t] = [c EXCEPT !.pc = "done", !.calls = calls,
                                          !.ret = RStr(c.id)]]
  /\ UNCHANGED nextId
  /\ OneCaller

\* client.images.pull(image)
Pull(t) ==
  /\ callers[t].pc = "pull"
  /\ LET c == callers[t]
         p == _parse_docker_command(c.config)
     IN callers' =
          [callers EXCEPT
             ![t] = [c EXCEPT !.pc = "run",
                              !.calls = Append(c.calls,
                                               Call("pull", p.params.image))]]
  /\ UNCHANGED <<containers, nextId>>
  /\ OneCaller

\* client.containers.run(**run_params): the daemon refuses a name that is in
\* use (a DockerException), otherwise it creates the container
Run(t) ==
  /\ callers[t].pc = "run"
  /\ LET c == callers[t]
         name == c.config.name
         calls == Append(c.calls, Call("run", name))
     IN IF containers[name].exists
        THEN /\ callers' = [callers EXCEPT
                              ![t] = [c EXCEPT !.pc = "done", !.calls = calls,
                                               !.exc = "DockerException"]]
             /\ UNCHANGED <<containers, nextId>>
        ELSE /\ containers' =
                  [containers EXCEPT
                     ![name] = Container(IdPool[nextId], "running", "")]
             /\ nextId' = nextId + 1
             /\ callers' = [callers EXCEPT
                              ![t] = [c EXCEPT !.pc = "done", !.calls = calls,
                                               !.ret = RStr(IdPool[nextId])]]
  /\ OneCaller

NextRace ==
  \/ \E t \in Callers : Begin(t)
  \/ \E t \in Callers : Probe(t)
  \/ \E t \in Callers : StartExisting(t)
  \/ \E t \in Callers : Pull(t)
  \/ \E t \in Callers : Run(t)

SpecRace == InitRace /\ [][NextRace]_vars

\* ------------------------------------------------------------------------
\* Properties of the ContainerManager
\* ------------------------------------------------------------------------
\* what the existence probe of the last operation reported
ProbeFailed == last.inputs.fail = "get"
Target == Resolve(pre.cs, last.ref)
ProbeFound == ~ProbeFailed /\ Target # ""
ProbeNotFound == ~ProbeFailed /\ Target = ""

\* C1: a Start of a config that follows a Start of the same config that
\* returned an id returns that same id when it returns, and over the two
\* calls pull and run are each invoked at most once, and not at all when the
\* container was running before the first call
C1_StartIdempotent ==
  (last.op = "start" /\ prev.id # "") =>
    /\ last.exc = "none" => last.ret = RStr(prev.id)
    /\ prev.pulls + Count(last.calls, "pull") <= 1
    /\ prev.runs + Count(last.calls, "run") <= 1
    /\ prev.running =>
         /\ prev.pulls + Count(last.calls, "pull") = 0
         /\ prev.runs + Count(last.calls, "run") = 0

\* a second Start returned after a first Start that created the container
C1_Witness ==
  /\ last.op = "start"
  /\ last.exc = "none"
  /\ prev.id # ""
  /\ prev.runs = 1
  /\ prev.pulls = 1

\* the positions of the calls of a primitive in the call list of the last
\* operation
CallsOf(prim) == {i \in DOMAIN last.calls : last.calls[i][1] = prim}

C3_StopContract ==
  last.op = "stop" =>
    /\ (last.ret = RBool(FALSE)) <=> ProbeNotFound
    /\ (Count(last.calls, "stop") = 1)
         <=> (ProbeFound /\ pre.cs[Target].status = "running")
    /\ Count(last.calls, "stop") <= 1
    /\ (ProbeFound /\ pre.cs[Target].status # "running") =>
         /\ last.ret = RBool(TRUE)
         /\ Count(last.calls, "stop") = 0

\* Stop returned true for a container that was found paused
C3_Witness ==
  /\ last.op = "stop"
  /\ ProbeFound
  /\ pre.cs[Target].status = "paused"
  /\ last.ret = RBool(TRUE)

\* C29: when Stop returns true, the container is in no executing status
\* right after the call: neither running nor paused nor restarting
C29_StopPostcondition ==
  (last.op = "stop" /\ last.ret = RBool(TRUE)) =>
    containers[Target].status \notin {"running", "paused", "restarting"}

\* C15: Restart returns false and changes nothing in the daemon when the
\* probe reports not-found; for a found container in any status it calls
\* restart exactly once and, the daemon not failing, returns true
C15_RestartContract ==
  last.op = "restart" =>
    /\ ProbeNotFound =>
         /\ last.ret = RBool(FALSE)
         /\ last.exc = "none"
         /\ last.calls = <<Call("get", last.ref)>>
         /\ containers = pre.cs
    /\ ProbeFound =>
         /\ Cardinality(CallsOf("restart")) = 1
         /\ last.inputs.fail = "none" =>
              (last.ret = RBool(TRUE) /\ last.exc = "none")
    /\ last.ret = RBool(TRUE) => ProbeFound

\* Restart returned true for a container that was found exited
C15_Witness ==
  /\ last.op = "restart"
  /\ ProbeFound
  /\ pre.cs[Target].status = "exited"
  /\ Cardinality(CallsOf("restart")) = 1
  /\ last.ret = RBool(TRUE)

\* C4: Remove returns true for an id that is not found, force-removes a found
\* container in any status and returns true, and after every Remove that
\* returned true the container is absent from the daemon
C4_RemoveIdempotent ==
  last.op = "remove" =>
    /\ ProbeNotFound => (last.ret = RBool(TRUE) /\ last.exc = "none")
    /\ (ProbeFound /\ last.inputs.fail = "none") =>
         /\ last.ret = RBool(TRUE)
         /\ Count(last.calls, "remove") = 1
    /\ last.ret = RBool(TRUE) => Resolve(containers, last.ref) = ""

\* Remove returned true for a container that was found running
C4_Witness ==
  /\ last.op = "remove"
  /\ ProbeFound
  /\ pre.cs[Target].status = "running"
  /\ last.ret = RBool(TRUE)
  /\ ~containers[Target].exists

\* the classification table of the daemon status strings
StatusTable ==
  { <<"running", "RUNNING">>, <<"exited", "STOPPED">>, <<"dead", "STOPPED">>,
    <<"created", "STARTING">>, <<"restarting", "STARTING">>,
    <<"paused", "UNKNOWN">> }

\* C5: GetStatus of a container whose state was read returns the entry of the
\* table for its daemon status, UNKNOWN for a status outside the table, and
\* never STOPPING or ERROR
C5_StatusTable ==
  (last.op = "get_status" /\ ProbeFound /\ last.inputs.fail = "none") =>
    LET status == pre.cs[Target].status IN
    /\ last.exc = "none"
    /\ \A row \in StatusTable : row[1] = status => last.ret = RStr(row[2])
    /\ (\A row \in StatusTable : row[1] # status) => last.ret = RStr("UNKNOWN")
    /\ last.ret.s \notin {"STOPPING", "ERROR"}

\* GetStatus read a container in a status outside the table
C5_Witness ==
  /\ last.op = "get_status"
  /\ ProbeFound
  /\ last.inputs.fail = "none"
  /\ pre.cs[Target].status = "removing"
  /\ last.ret = RStr("UNKNOWN")

\* the command of the last Start is no run request: it is empty, does not
\* begin with docker, or has no sub-command or another one than run
NotRunRequest ==
  LET parts == last.config.docker_command IN
  \/ Len(parts) < 2
  \/ parts[1] # "docker"
  \/ parts[2] # "run"

C25_ProbeErrorPropagates ==
  (last.op = "start" /\ ProbeFailed) =>
    /\ last.exc = "DockerException"
    /\ last.ret = RNone
    /\ last.calls = <<Call("get", last.config.name)>>
    /\ containers = pre.cs
    /\ nextId = pre.nid

\* the probe failed for a config with a run command while the daemon had no
\* container of that name and another container stopped
C25_Witness ==
  /\ last.op = "start"
  /\ ProbeFailed
  /\ Target = ""
  /\ ~NotRunRequest
  /\ last.exc = "DockerException"
  /\ \E n \in Names : pre.cs[n].exists /\ pre.cs[n].status = "exited"

\* C23: a Start whose command is no run request fails with the error of the
\* unsupported command and returns no id, whether a container of that name
\* exists or not, and calls neither pull nor run
C23_UnsupportedRejected ==
  (last.op = "start" /\ NotRunRequest /\ ~ProbeFailed) =>
    /\ last.exc = "ValueError"
    /\ last.ret = RNone
    /\ CallsOf("pull") = {}
    /\ CallsOf("run") = {}

\* the next request of a thread's call to the daemon
Step(t) == Probe(t) \/ StartExisting(t) \/ Pull(t) \/ Run(t)

\* a call that found no container and whose command translates
SawNotFound(t) ==
  /\ callers[t].seen = "notfound"
  /\ _parse_docker_command(callers[t].config).exc = "none"

\* C27: no lock orders concurrent Starts: a call in flight can always make
\* its next request to the daemon, wherever the other calls stand, and every
\* call whose probe reported not-found goes on to one pull and one run, also
\* when another call for the same name did the same
C27_StartRace ==
  \A t \in Callers :
    /\ callers[t].pc \in {"probe", "start", "pull", "run"} => ENABLED Step(t)
    /\ (callers[t].pc = "done" /\ SawNotFound(t)) =>
         /\ Count(callers[t].calls, "pull") = 1
         /\ Count(callers[t].calls, "run") = 1

\* two calls for the same name have both found no container and have both
\* made pull and run for that name; the first one created the container
C27_Witness ==
  /\ callers["t1"].config.name = callers["t2"].config.name
  /\ \A t \in Callers :
       /\ callers[t].pc = "done"
       /\ SawNotFound(t)
       /\ Count(callers[t].calls, "pull") = 1
       /\ Count(callers[t].calls, "run") = 1
  /\ callers["t1"].exc = "none"
  /\ callers["t2"].exc = "DockerException"

\* ------------------------------------------------------------------------
\* Properties of the StatusMonitor and of ResourceUsage
\* ------------------------------------------------------------------------
\* C2: CheckStatus, GetResourceUsage and HealthCheck never raise, whatever the
\* daemon answers
C2_QueriesNeverRaise ==
  last.op \in {"check_status", "get_resource_usage", "health_check"} =>
    last.exc = "none"

\* C13: CheckStatus returns UNKNOWN without resource usage for a container
\* that is not found and ERROR without resource usage when the daemon fails
\* to hand out the container; for a container that is found it returns the
\* classification of the daemon status with last_check the time of the call
C13_CheckStatusContract ==
  last.op = "check_status" =>
    /\ last.exc = "none"
    /\ ProbeNotFound =>
         /\ last.ret.o.status = "UNKNOWN"
         /\ last.ret.o.resource_usage = NoUsage
    /\ (ProbeFailed \/ (ProbeFound /\ last.inputs.fail = "reload")) =>
         /\ last.ret.o.status = "ERROR"
         /\ last.ret.o.resource_usage = NoUsage
    /\ (ProbeFound /\ last.inputs.fail # "reload") =>
         /\ \A row \in StatusTable :
              row[1] = pre.cs[Target].status => last.ret.o.status = row[2]
         /\ (\A row \in StatusTable : row[1] # pre.cs[Target].status) =>
              last.ret.o.status = "UNKNOWN"
         /\ last.ret.o.last_check = now

\* C14: HealthCheck returns true exactly when the container is found and
\* either reports the health-check status "healthy" or reports none and is
\* running; it returns false, and raises nothing, when the container is not
\* found or the daemon fails
C14_HealthCheck ==
  last.op = "health_check" =>
    /\ last.exc = "none"
    /\ (last.ret = RBool(TRUE)) <=>
         /\ ProbeFound
         /\ last.inputs.fail = "none"
         /\ \/ pre.cs[Target].health = "healthy"
            \/ pre.cs[Target].health = "" /\ pre.cs[Target].status = "running"
    /\ (last.ret = RBool(TRUE)) \/ (last.ret = RBool(FALSE))

\* HealthCheck returned false for a running container that reports unhealthy
C14_Witness ==
  /\ last.op = "health_check"
  /\ ProbeFound
  /\ last.inputs.fail = "none"
  /\ pre.cs[Target].health = "unhealthy"
  /\ pre.cs[Target].status = "running"
  /\ last.ret = RBool(FALSE)

\* the stats of the last operation were read from a container that was found
StatsRead ==
  /\ last.op = "get_resource_usage"
  /\ last.inputs.fail = "none"
  /\ Target # ""

\* the sub-fields that the lines after the CPU computation read are there
RestPresent(st) == st.has_mem /\ st.blkio # "null"

\* C6: the cpu_usage of the ResourceUsage that GetResourceUsage returns is
\* (cpu delta / system delta) * cores * 100 when the system delta is positive,
\* and the call returns cpu_usage 0 when the system delta is not positive;
\* the payload of the test gives 40
C6_CpuFormula ==
  (StatsRead /\ last.inputs.stats.has_sys /\ last.inputs.stats.has_presys) =>
    LET st == last.inputs.stats
        cpu_delta == st.total - st.pretotal
        system_delta == st.sys - st.presys
        cpu == last.ret.o.v.cpu_usage
    IN
    /\ (system_delta > 0 /\ last.exc = "none") =>
         /\ cpu.some
         /\ cpu.v.den > 0
         /\ cpu.v.num * system_delta = cpu_delta * st.ncores * 100 * cpu.v.den
    /\ (system_delta > 0 /\ st.has_percpu /\ RestPresent(st)
        /\ cpu_delta >= 0 /\ cpu_delta * st.ncores <= system_delta) =>
         last.exc = "none"
    /\ (system_delta <= 0 /\ RestPresent(st)) =>
         /\ last.exc = "none"
         /\ cpu = SomeFloat([num |-> 0, den |-> 1])
    /\ st = TestStats =>
         /\ last.exc = "none"
         /\ cpu = SomeFloat([num |-> 40, den |-> 1])

\* GetResourceUsage returned 100 for half of the system delta on two cores
C6_Witness ==
  /\ StatsRead
  /\ last.exc = "none"
  /\ last.inputs.stats.has_sys
  /\ last.inputs.stats.sys - last.inputs.stats.presys = 2
  /\ last.inputs.stats.total - last.inputs.stats.pretotal = 1
  /\ last.inputs.stats.ncores = 2
  /\ last.ret.o.v.cpu_usage = SomeFloat([num |-> 100, den |-> 1])

\* a ResourceUsage within the limits of its fields
WithinLimits(u) ==
  /\ u.cpu_usage.some =>
       /\ u.cpu_usage.v.num >= 0
       /\ u.cpu_usage.v.num <= 100 * u.cpu_usage.v.den
  /\ \A i \in {u.memory_usage, u.network_rx, u.network_tx, u.block_read,
               u.block_write, u.pids} : i.some => i.v >= 0

\* the ResourceUsage values of the state: what the last operation returned
UsageValues ==
  IF last.op \in {"construct", "get_resource_usage"} /\ last.exc = "none"
     /\ last.ret.o.some
  THEN {last.ret.o.v}
  ELSE {}

\* C7: every ResourceUsage value is within the limits, and ResourceUsage(...)
\* with a negative field or a cpu_usage above 100 raises and yields no value
C7_UsageValid ==
  /\ \A u \in UsageValues : WithinLimits(u)
  /\ last.op = "construct" =>
       /\ ~WithinLimits(last.inputs.fields) =>
            (last.exc = "ValidationError" /\ last.ret = RNone)
       /\ WithinLimits(last.inputs.fields) =>
            last.ret = RObj(SomeUsage(last.inputs.fields))

\* ResourceUsage(cpu_usage=150) was rejected
C7_Witness ==
  /\ last.op = "construct"
  /\ last.inputs.fields.cpu_usage = SomeFloat([num |-> 150, den |-> 1])
  /\ last.inputs.fields.memory_usage = SomeInt(0)
  /\ last.exc = "ValidationError"

\* the operations of the StatusMonitor
MonitorOps ==
  {"check_status", "get_resource_usage", "health_check", "list_running",
   "monitor_all"}

\* the requests that only read from the daemon, and the monitor's own call
ReadOnlyCalls == {"get", "reload", "stats", "list", "check_container_status"}

\* C30: CheckStatus, GetResourceUsage, HealthCheck, MonitorAll and ListRunning
\* make only reading requests to the daemon (no run, start, stop, restart,
\* remove or pull), leave the containers of the daemon as they were, and
\* MonitorAll leaves every record of the registry as it was
C30_MonitorReadOnly ==
  last.op \in MonitorOps =>
    /\ \A i \in DOMAIN last.calls : last.calls[i][1] \in ReadOnlyCalls
    /\ containers = pre.cs
    /\ nextId = pre.nid
    /\ registry = pre.reg

\* MonitorAll returned for a started server a status that is not the one its
\* record holds, and the record holds the old one still
C30_Witness ==
  /\ last.op = "monitor_all"
  /\ last.exc = "none"
  /\ Len(last.ret.o) = 1
  /\ last.ret.o[1][2] # pre.reg.servers[last.ret.o[1][1]].status
  /\ registry.servers[last.ret.o[1][1]].status
       = pre.reg.servers[last.ret.o[1][1]].status

\* ------------------------------------------------------------------------
\* Properties of the MCPServerManager
\* ------------------------------------------------------------------------
\* the server name of the last call was not a key of the registry
NameAbsent ==
  /\ last.op \in {"start_server", "stop_server", "get_server_status"}
  /\ ~pre.reg.servers[last.ref].present

\* C8: for a name that is not a key of the registry, StartServer and
\* StopServer return false and GetServerStatus returns none, without raising,
\* without a call to the ContainerManager or the StatusMonitor and without a
\* change of the registry
C8_AbsentName ==
  NameAbsent =>
    /\ last.exc = "none"
    /\ last.ret = (IF last.op = "get_server_status" THEN RNone
                   ELSE RBool(FALSE))
    /\ last.calls = <<>>
    /\ registry = pre.reg
    /\ containers = pre.cs

\* StartServer was called with a name the registry does not hold while it
\* holds the other one
C8_Witness ==
  /\ NameAbsent
  /\ last.op = "start_server"
  /\ \E n \in Names : pre.reg.servers[n].present

\* the names whose record had a container_info with a non-empty container_id
\* when the last call began
NamesWithId ==
  {n \in Names :
     /\ pre.reg.servers[n].present
     /\ pre.reg.servers[n].container_info.some
     /\ pre.reg.servers[n].container_info.container_id # ""}

\* C9: the mapping MonitorAll returns has exactly the names whose record had a
\* container_info with a non-empty container_id as its keys, and the value
\* under each key is what CheckStatus returns for that record's container id
C9_MonitorAllKeys ==
  (last.op = "monitor_all" /\ last.exc = "none") =>
    LET status_map == last.ret.o IN
    /\ {status_map[i][1] : i \in DOMAIN status_map} = NamesWithId
    /\ \A i, j \in DOMAIN status_map :
         status_map[i][1] = status_map[j][1] => i = j
    /\ \A i \in DOMAIN status_map :
         LET name == status_map[i][1] IN
         status_map[i][2] =
           check_container_status(
             pre.cs, nextId,
             pre.reg.servers[name].container_info.container_id,
             last.inputs.statsOf[name],
             FailAt(last.inputs.failOf[name], "sm"), now).ret.o

\* MonitorAll returned a status for one server and left out a registered one
\* that had no container id
C9_Witness ==
  /\ last.op = "monitor_all"
  /\ last.exc = "none"
  /\ last.ret.o # <<>>
  /\ \E n \in Names : pre.reg.servers[n].present /\ n \notin NamesWithId

\* the names a bulk call handed to prim, in the order of the calls
NamesCalled(prim) ==
  LET made == SelectSeq(last.calls, LAMBDA c : c[1] = prim) IN
  [i \in 1..Len(made) |-> made[i][2]]

\* C10: StopAllServers calls StopServer on the registered names in the reverse
\* of their registration order, StartAllServers calls StartServer in
\* registration order
C10_BulkOrder ==
  LET order == pre.reg.order IN
  /\ last.op = "stop_all" =>
       LET stopped == NamesCalled("stop_server") IN
       /\ Len(stopped) = Len(order)
       /\ \A i \in 1..Len(order) : stopped[i] = order[Len(order) + 1 - i]
  /\ last.op = "start_all" => NamesCalled("start_server") = order

\* StopAllServers stopped two servers that were both running
C10_Witness ==
  /\ last.op = "stop_all"
  /\ Len(pre.reg.order) = 2
  /\ \A i \in DOMAIN last.ret.o : last.ret.o[i][2]

\* what StartServer or StopServer does for name in the course of the last bulk
\* call, from the daemon and the registry in s
BulkStep(s, name) ==
  IF last.op = "start_all"
  THEN start_server(s.cs, s.nid, s.reg, name, last.inputs.statsOf[name],
                    last.inputs.failOf[name], now)
  ELSE stop_server(s.cs, s.nid, s.reg, name, last.inputs.statsOf[name],
                   last.inputs.failOf[name], now)

\* the names of the last bulk call in the order it takes them
BulkNames ==
  IF last.op = "start_all" THEN pre.reg.order
  ELSE [i \in 1..Len(pre.reg.order) |->
          pre.reg.order[Len(pre.reg.order) + 1 - i]]

\* the outcome of the k-th single call of the last bulk call, each call made
\* on what the calls before it left
RECURSIVE BulkAfter(_)
BulkAfter(k) ==
  IF k = 0
  THEN OrchOutcome(pre.cs, pre.nid, pre.reg, RNone, "none", <<>>)
  ELSE Bind(BulkAfter(k - 1), LAMBDA s : BulkStep(s, BulkNames[k]))

\* C11: StartAllServers and StopAllServers return a map with the keys of the
\* registry, the value under a name is the result of the single call for that
\* name, a failure of one server does not end the loop, and what the calls
\* did to the daemon and the registry stays
C11_BulkResults ==
  last.op \in {"start_all", "stop_all"} =>
    /\ last.exc = "none"
    /\ LET results == last.ret.o IN
       /\ {results[i][1] : i \in DOMAIN results} =
            {n \in Names : pre.reg.servers[n].present}
       /\ {n \in Names : registry.servers[n].present} =
            {n \in Names : pre.reg.servers[n].present}
       /\ Len(results) = Len(pre.reg.order)
       /\ \A i \in DOMAIN results :
            /\ results[i][1] = BulkNames[i]
            /\ results[i][2] = BulkAfter(i).ret.b
       /\ containers = BulkAfter(Len(results)).cs
       /\ registry = BulkAfter(Len(results)).reg

\* StartAllServers failed for the first server and started the second
C11_Witness ==
  /\ last.op = "start_all"
  /\ Len(last.ret.o) = 2
  /\ ~last.ret.o[1][2]
  /\ last.ret.o[2][2]
  /\ last.inputs.failOf[last.ret.o[1][1]] # NoFail

\* the record the last single-server call addressed, as the call found it
Record == pre.reg.servers[last.ref]
RecordId == Record.container_info.container_id

\* the container id the last call handed to a sub-component call, "" when it
\* made no such call
IdGivenTo(sub) ==
  LET made == SelectSeq(last.calls, LAMBDA c : c[1] = sub) IN
  IF made = <<>> THEN "" ELSE made[1][2]

\* the CheckStatus of the last call: the daemon is after the call as the
\* check found it
Checked ==
  check_container_status(containers, nextId,
                         IdGivenTo("check_container_status"),
                         last.inputs.statsOf[last.ref],
                         FailAt(last.inputs.failOf[last.ref], "sm"), now)

\* the Lifecycle call of the last StartServer, StopServer or RestartServer
Delegated ==
  LET fail == FailAt(last.inputs.failOf[last.ref], "cm") IN
  IF last.op = "start_server"
  THEN start_container(pre.cs, pre.nid, Record.config, fail)
  ELSE IF last.op = "stop_server"
  THEN stop_container(pre.cs, pre.nid, RecordId, fail)
  ELSE restart_container(pre.cs, pre.nid, RecordId, fail)

\* C18: when StartServer returns true, the record carries a container_info
\* with the id Start returned and the status CheckStatus returned for that id
C18_StartRecord ==
  (last.op = "start_server" /\ last.ret = RBool(TRUE)) =>
    /\ registry.servers[last.ref].container_info.some
    /\ registry.servers[last.ref].container_info.container_id
         = Delegated.ret.s
    /\ IdGivenTo("check_container_status") = Delegated.ret.s
    /\ registry.servers[last.ref].status = Checked.ret.o

\* a sub-component call of the last operation raised
LifecycleCalled ==
  \E c \in {"start_container", "stop_container", "restart_container"} :
    Count(last.calls, c) > 0
SubRaised ==
  \/ LifecycleCalled /\ Delegated.exc # "none"
  \/ /\ Count(last.calls, "get_container_info") > 0
     /\ FailAt(last.inputs.failOf[last.ref], "info") = "get"
  \/ Count(last.calls, "check_container_status") > 0 /\ Checked.exc # "none"

\* C19: StartServer, StopServer, RestartServer and GetServerStatus raise
\* nothing; an error raised by the ContainerManager or the StatusMonitor
\* during the call makes them return false (none for GetServerStatus)
C19_NothingEscapes ==
  last.op \in {"start_server", "stop_server", "restart_server",
               "get_server_status"} =>
    /\ last.exc = "none"
    /\ SubRaised =>
         last.ret = (IF last.op = "get_server_status" THEN RNone
                     ELSE RBool(FALSE))

\* StopServer returned false because the ResourceUsage of the status check
\* was rejected
C19_Witness ==
  /\ last.op = "stop_server"
  /\ Count(last.calls, "check_container_status") > 0
  /\ Checked.exc = "ValidationError"
  /\ last.exc = "none"
  /\ last.ret = RBool(FALSE)

\* C20: StopServer and RestartServer on a registered record without a
\* container id return false and call neither the ContainerManager nor the
\* StatusMonitor; with an id they call stop / restart with that id, return
\* what it returned, and take the status from CheckStatus exactly when it
\* returned true
C20_StopRestartDelegate ==
  (last.op \in {"stop_server", "restart_server"} /\ Record.present) =>
    /\ ~(Record.container_info.some /\ RecordId # "") =>
         /\ last.ret = RBool(FALSE)
         /\ last.calls = <<>>
         /\ registry = pre.reg
    /\ (Record.container_info.some /\ RecordId # "") =>
         /\ last.calls # <<>>
         /\ last.calls[1] = Call(IF last.op = "stop_server"
                                 THEN "stop_container"
                                 ELSE "restart_container", RecordId)
         /\ Delegated.exc = "none" =>
              /\ last.ret = Delegated.ret
              /\ ~Delegated.ret.b =>
                   /\ Count(last.calls, "check_container_status") = 0
                   /\ registry = pre.reg
              /\ Delegated.ret.b =>
                   /\ IdGivenTo("check_container_status") = RecordId
                   /\ registry.servers[last.ref].status = Checked.ret.o

\* C21: GetServerStatus on a record with a container id returns the status
\* CheckStatus produces for that id and stores that same value as the
\* record's status in place of the previous one; on a record without a
\* container id it returns none and leaves the record as it was
C21_GetServerStatus ==
  (last.op = "get_server_status" /\ Record.present) =>
    /\ HasContainerId(Record) =>
         /\ IdGivenTo("check_container_status") = RecordId
         /\ Checked.exc = "none"
         /\ last.ret = Checked.ret
         /\ last.ret # RNone
         /\ registry =
              [pre.reg EXCEPT !.servers[last.ref].status = Checked.ret.o]
    /\ ~HasContainerId(Record) =>
         /\ last.ret = RNone
         /\ last.calls = <<>>
         /\ registry = pre.reg

\* the refresh ListAllServers makes for the record under name, as the call
\* found the daemon
Refreshed(name) ==
  check_container_status(pre.cs, pre.nid,
                         pre.reg.servers[name].container_info.container_id,
                         last.inputs.statsOf[name],
                         FailAt(last.inputs.failOf[name], "sm"), now)

\* C22: ListAllServers raises nothing and returns every record of the
\* registry in registration order, whatever the refreshes did; a record with
\* a container id has its status replaced by what CheckStatus returns, or by
\* ERROR with the time of the call when CheckStatus raises; a record without
\* a container id is returned as it was; a refresh that fails does not keep
\* the later records from being refreshed
C22_ListAll ==
  last.op = "list_all" =>
    /\ last.exc = "none"
    /\ registry.order = pre.reg.order
    /\ last.ret.o = Listing(registry)
    /\ Len(last.ret.o) = Len(pre.reg.order)
    /\ \A n \in Names :
         /\ ~pre.reg.servers[n].present => registry.servers[n] = NoServer
         /\ (pre.reg.servers[n].present /\ n \notin NamesWithId) =>
              registry.servers[n] = pre.reg.servers[n]
         /\ n \in NamesWithId =>
              registry.servers[n] =
                [pre.reg.servers[n] EXCEPT
                   !.status = IF Refreshed(n).exc = "none"
                              THEN Refreshed(n).ret.o
                              ELSE MCPServerStatus("ERROR", NoUsage, "", now)]

\* ListAllServers returned two started servers after the clock had moved on:
\* the refresh of the first one raised and left it ERROR with the new time,
\* the second one carries the status of its own refresh
C22_Witness ==
  /\ last.op = "list_all"
  /\ Len(last.ret.o) = 2
  /\ pre.reg.order[1] \in NamesWithId
  /\ pre.reg.order[2] \in NamesWithId
  /\ Refreshed(pre.reg.order[1]).exc # "none"
  /\ last.ret.o[1].status.status = "ERROR"
  /\ last.ret.o[1].status.last_check > pre.reg.servers[pre.reg.order[1]].status.last_check
  /\ last.ret.o[2].status.status = "RUNNING"
  /\ last.ret.o[2].status.last_check > pre.reg.servers[pre.reg.order[2]].status.last_check

\* the operations of the manager and of its ContainerManager, as opposed to
\* those of the registry itself
ManagerOps ==
  {"start_server", "stop_server", "restart_server", "start_all", "stop_all",
   "get_server_status", "list_all", "monitor_all", "remove"}

\* the keys of a registry
Keys(reg) == {n \in Names : reg.servers[n].present}

\* C26: only add_server and remove_server change the set of keys of the
\* registry: StartServer, StopServer, RestartServer, StartAll, StopAll,
\* GetServerStatus, ListAllServers and the removal of a container add no
\* record, remove none and change no record's config
C26_KeysFrame ==
  /\ (last.op # "" /\ last.op \notin {"add_server", "remove_server"}) =>
       /\ Keys(registry) = Keys(pre.reg)
       /\ registry.order = pre.reg.order
  /\ last.op \in ManagerOps =>
       \A n \in Names : registry.servers[n].config = pre.reg.servers[n].config

\* the container of a started server was removed from the daemon and the
\* record of the server, with the id of that container, is still registered
C26_Witness ==
  /\ last.op = "remove"
  /\ last.ret = RBool(TRUE)
  /\ pre.cs[last.ref].exists
  /\ ~containers[last.ref].exists
  /\ registry.servers[last.ref].present
  /\ registry.servers[last.ref].container_info.container_id
       = pre.cs[last.ref].id

\* the last call was a single-server call of the manager that reported a
\* failure: false, or none from GetServerStatus
ReportedFailure ==
  \/ /\ last.op \in {"start_server", "stop_server", "restart_server"}
     /\ last.ret = RBool(FALSE)
  \/ /\ last.op = "get_server_status"
     /\ last.ret = RNone

\* C28: when StartServer, StopServer or RestartServer returns false, or
\* GetServerStatus returns none, the status and the container_info of the
\* record it addressed are what they were before the call
C28_FailureAtomic ==
  ReportedFailure =>
    /\ registry.servers[last.ref].status = Record.status
    /\ registry.servers[last.ref].container_info = Record.container_info

\* ------------------------------------------------------------------------
\* Properties of the ServerRegistry
\* ------------------------------------------------------------------------
\* C16: every key of the registry is the config name of the record under it,
\* and no two records have the same config name
C16_KeysAreNames ==
  /\ \A n \in Names :
       registry.servers[n].present => registry.servers[n].config.name = n
  /\ \A n, m \in Names :
       (registry.servers[n].present /\ registry.servers[m].present
        /\ registry.servers[n].config.name = registry.servers[m].config.name)
         => n = m

\* the last registry operation and whether its key was valid for it
RegistryOp ==
  last.op \in {"add_server", "remove_server", "update_server_status",
               "update_server_config"}
ValidKey ==
  IF last.op = "add_server" THEN ~pre.reg.servers[last.ref].present
  ELSE pre.reg.servers[last.ref].present

\* C17: add_server with a registered name, and remove_server,
\* update_server_status and update_server_config with a name that is not
\* registered, return false and leave the registry with its last_updated as
\* it was; on a valid key they return true and set last_updated to the time
\* of the call
C17_InvalidKeyNoOp ==
  RegistryOp =>
    /\ ~ValidKey => (last.ret = RBool(FALSE) /\ registry = pre.reg)
    /\ ValidKey =>
         /\ last.ret = RBool(TRUE)
         /\ registry.last_updated = now
         /\ registry.last_updated >= pre.reg.last_updated

\* add_server was refused for a registered name after the clock had moved on
C17_Witness ==
  /\ last.op = "add_server"
  /\ ~ValidKey
  /\ last.ret = RBool(FALSE)
  /\ now > registry.last_updated
  /\ last.config # pre.reg.servers[last.ref].config

====
